---- MODULE Spec2Model ----
(***************************************************************************)
(* Price-resolution and fallback-caching engine of the wallet backend:     *)
(* the CoinGecko service (CoinGeckoAPIService) and its TokenRegistry.      *)
(*                                                                         *)
(* Conventions of the model                                                *)
(*  - A JavaScript number is an integer here; 1.0 is 1.  parseFloat of a   *)
(*    string that is no number gives NaN, encoded by the definition NaN.   *)
(*  - A price map (Record<string, number>) is a function whose domain is   *)
(*    the set of addresses that have a key in the object.                  *)
(*  - A cache key is the pair of its literal prefix and the strings that   *)
(*    are interpolated after it; the addresses of the model contain        *)
(*    neither ',' nor '_', so the joined string determines the pair.       *)
(*  - Every public method is one action.  The outcome of each upstream     *)
(*    HTTP call the method makes is an input of the action.                *)
(*  - Date.now() is the variable now; it advances between operations.      *)
(*  - An exception is the field threw of the value a try body returns; the *)
(*    catch clauses are the Catch... operators.                            *)
(***************************************************************************)
EXTENDS Integers, Sequences, FiniteSets, TLC

VARIABLES
  requestCache,   \* CoinGeckoAPIService.requestCache: key -> [data, timestamp]
  now,            \* the value Date.now() returns
  last,           \* the last completed call: arguments, result, upstream calls
  prev,           \* the completed call before it
  nops,           \* number of calls made so far
  inflight        \* the calls in progress: between two of their awaits

vars == << requestCache, now, last, prev, nops, inflight >>

(***************************************************************************)
(* Bounds of the model                                                     *)
(***************************************************************************)
\* calls made in a run of the specifications that have the clock
MaxOps == 2

\* calls made in a run of the specification of every method
MaxCalls == 1

(***************************************************************************)
(* Program constants                                                       *)
(***************************************************************************)
cacheTimeout == 60000

StablecoinPrice == 1

DefaultDecimals == 6

\* the value of parseFloat for a string that does not start with a number
NaN == 0 - 1

undefined == "<undefined>"

solMintAddress == "So11111111111111111111111111111111111111112"

USDC_ADDR == "EPjFWdd5AufqSSqeM2qN1xzybapC8G4wEGGkZwyTDt1v"

(***************************************************************************)
(* TokenRegistry                                                           *)
(***************************************************************************)
\* a registry in which one address is a known token of two networks
networks_sharedAddress ==
  ("solana" :> [
      stablecoins |-> << "EPjFWdd5AufqSSqeM2qN1xzybapC8G4wEGGkZwyTDt1v" >>,
      knownTokens |->
          ("So11111111111111111111111111111111111111112" :> "solana")])
  @@ ("ethereum" :> [
      stablecoins |-> << "0xA0b86a33E6441b8C4505B8C4505B8C4505B8C4505" >>,
      knownTokens |->
          ("So11111111111111111111111111111111111111112" :> "wrapped-solana") @@
          ("0xC02aaA39b223FE8D0A0e5C4F27eAD9083C756Cc2" :> "ethereum")])
  @@ ("polygon" :> [
      stablecoins |-> << "0x2791Bca1f2de4661ED88A30C99A7a9449Aa84174" >>,
      knownTokens |->
          ("0x0d500B1d8E8eF31E21C99d1Db9A6444d3ADf1270" :> "matic-network")])
  @@ ("base" :> [
      stablecoins |-> << "0x833589fCD6eDb6E08f4c7C32D4f71b54bdA02913" >>,
      knownTokens |->
          ("0x4200000000000000000000000000000000000006" :> "ethereum")])

networks ==
  ("solana" :> [
      stablecoins |-> << "EPjFWdd5AufqSSqeM2qN1xzybapC8G4wEGGkZwyTDt1v",
                       "Es9vMFrzaCERmJfrF4H2FYD4KCoNkY11McCe8BenwNYB" >>,
      knownTokens |->
          ("So11111111111111111111111111111111111111112" :> "solana") @@
          ("EPjFWdd5AufqSSqeM2qN1xzybapC8G4wEGGkZwyTDt1v" :> "usd-coin") @@
          ("Es9vMFrzaCERmJfrF4H2FYD4KCoNkY11McCe8BenwNYB" :> "tether") @@
          ("4k3Dyjzvzp8eMZWUXbBCjEvwSkkk59S5iCNLY3QrkX6R" :> "raydium") @@
          ("SRMuApVNdxXokk5GT7XD5cUUgXMBCoAz2LHeuAoKWRt" :> "serum") @@
          ("MangoCzJ36AjZyKwVj3VnYU4GTonjfVEnJmvvWaxLac" :> "mango-markets") @@
          ("orcaEKTdK7LKz57vaAYr9QeNsVEPfiu6QeMU1kektZE" :> "orca") @@
          ("StepAscQoEioFxxWGnh2sLBDFp9d8rvKz2Yp39iDpyT" :> "step-finance") @@
          ("CopEFkRzkYgfYKFVLWdgELNNFyNVdWE1jVgVjdJMYFSX" :> "cope") @@
          ("7dHbWXmci3dT8UFYWYZweBLXgycu7Y3iL6trKn1Y7ARj" :> "samoyedcoin") @@
          ("EchesyfXePKdLtoiZSL8pBe8Myagyy8ZRqsACNCFGnvp" :> "bonfida") @@
          ("kinXdEcpDQeHPEuQnqmUgtYykqKGVFq6CeVX5iAHJq6" :> "kin") ])
  @@ ("ethereum" :> [
      stablecoins |-> << "0xA0b86a33E6441b8C4505B8C4505B8C4505B8C4505",
                       "0xdAC17F958D2ee523a2206206994597C13D831ec7" >>,
      knownTokens |->
          ("0xC02aaA39b223FE8D0A0e5C4F27eAD9083C756Cc2" :> "ethereum") @@
          ("0xA0b86a33E6441b8C4505B8C4505B8C4505B8C4505" :> "usd-coin") @@
          ("0xdAC17F958D2ee523a2206206994597C13D831ec7" :> "tether") ])
  @@ ("polygon" :> [
      stablecoins |-> << "0x2791Bca1f2de4661ED88A30C99A7a9449Aa84174",
                       "0xc2132D05D31c914a87C6611C10748AEb04B58e8F" >>,
      knownTokens |->
          ("0x0d500B1d8E8eF31E21C99d1Db9A6444d3ADf1270" :> "matic-network") @@
          ("0x2791Bca1f2de4661ED88A30C99A7a9449Aa84174" :> "usd-coin") @@
          ("0xc2132D05D31c914a87C6611C10748AEb04B58e8F" :> "tether") ])
  @@ ("base" :> [
      stablecoins |-> << "0x833589fCD6eDb6E08f4c7C32D4f71b54bdA02913",
                       "0xfde4C96c8593536E31F229EA8f37b2ADa2699bb2" >>,
      knownTokens |->
          ("0x4200000000000000000000000000000000000006" :> "ethereum") @@
          ("0x833589fCD6eDb6E08f4c7C32D4f71b54bdA02913" :> "usd-coin") @@
          ("0xfde4C96c8593536E31F229EA8f37b2ADa2699bb2" :> "tether") @@
          ("0x50c5725949A6F0c72E6C4a641F24049A917DB0Cb" :> "dai") @@
          ("0x2Ae3F1Ec7F1F5012CFEab0185bfc7aa3cf0DEc22" :> "coinbase-wrapped-staked-eth") @@
          ("0xc1CBa3fCea344f92D9239c08C0568f6F2F0ee452" :> "wrapped-steth") @@
          ("0x940181a94A35A4569E4529A3CDfB74e38FD98631" :> "aerodrome-finance") @@
          ("0x0578d8A44db98B23BF096A382e016e29a5Ce0ffe" :> "higher") @@
          ("0x532f27101965dd16442E59d40670FaF5eBB142E4" :> "brett") @@
          ("0x4ed4E862860beD51a9570b96d89aF5E1B0Efefed" :> "degen-base") @@
          ("0x60a3E35Cc302bFA44Cb288Bc5a4F316Fdb1adb42" :> "eurc") @@
          ("0x78a087d713Be963Bf307b18F2Ff8122EF9A63ae9" :> "base-god") @@
          ("0x27D2DECb4bFC9C76F0309b8E88dec3a601Fe25a8" :> "bald") @@
          ("0x8Ee73c484A26e0A5df2Ee2a4960B789967dd0415" :> "op-token") @@
          ("0x417Ac0e078398C154EdFadD9Ef675d30Be60Af93" :> "curve-dao-token") @@
          ("0x1f9840a85d5aF5bf1D1762F925BDADdC4201F984" :> "uniswap") @@
          ("0x3992B27dA26848C2b19CeA6Fd25ad5568B68AB98" :> "toshi") @@
          ("0x236aa50979D5f3De3Bd1Eeb40E81137F22ab794b" :> "tbtc") @@
          ("0xA88594D404727625A9437C3f886C7643872296AE" :> "well") @@
          ("0x9EaF8C1E34F05a589EDa6BAfdF391Cf6Ad3CB239" :> "yearn-finance") ])

CodeUnitOrder ==
  << "",
     "0x0578d8A44db98B23BF096A382e016e29a5Ce0ffe",
     "0x0d500B1d8E8eF31E21C99d1Db9A6444d3ADf1270",
     "0x1f9840a85d5aF5bf1D1762F925BDADdC4201F984",
     "0x236aa50979D5f3De3Bd1Eeb40E81137F22ab794b",
     "0x2791Bca1f2de4661ED88A30C99A7a9449Aa84174",
     "0x27D2DECb4bFC9C76F0309b8E88dec3a601Fe25a8",
     "0x2Ae3F1Ec7F1F5012CFEab0185bfc7aa3cf0DEc22",
     "0x3992B27dA26848C2b19CeA6Fd25ad5568B68AB98",
     "0x417Ac0e078398C154EdFadD9Ef675d30Be60Af93",
     "0x4200000000000000000000000000000000000006",
     "0x4ed4E862860beD51a9570b96d89aF5E1B0Efefed",
     "0x50c5725949A6F0c72E6C4a641F24049A917DB0Cb",
     "0x532f27101965dd16442E59d40670FaF5eBB142E4",
     "0x60a3E35Cc302bFA44Cb288Bc5a4F316Fdb1adb42",
     "0x78a087d713Be963Bf307b18F2Ff8122EF9A63ae9",
     "0x833589fCD6eDb6E08f4c7C32D4f71b54bdA02913",
     "0x8Ee73c484A26e0A5df2Ee2a4960B789967dd0415",
     "0x940181a94A35A4569E4529A3CDfB74e38FD98631",
     "0x9EaF8C1E34F05a589EDa6BAfdF391Cf6Ad3CB239",
     "0xA0b86a33E6441b8C4505B8C4505B8C4505B8C4505",
     "0xA88594D404727625A9437C3f886C7643872296AE",
     "0xC02aaA39b223FE8D0A0e5C4F27eAD9083C756Cc2",
     "0xc1CBa3fCea344f92D9239c08C0568f6F2F0ee452",
     "0xc2132D05D31c914a87C6611C10748AEb04B58e8F",
     "0xdAC17F958D2ee523a2206206994597C13D831ec7",
     "0xfde4C96c8593536E31F229EA8f37b2ADa2699bb2",
     "4k3Dyjzvzp8eMZWUXbBCjEvwSkkk59S5iCNLY3QrkX6R",
     "7dHbWXmci3dT8UFYWYZweBLXgycu7Y3iL6trKn1Y7ARj",
     "CopEFkRzkYgfYKFVLWdgELNNFyNVdWE1jVgVjdJMYFSX",
     "EPjFWdd5AufqSSqeM2qN1xzybapC8G4wEGGkZwyTDt1v",
     "EchesyfXePKdLtoiZSL8pBe8Myagyy8ZRqsACNCFGnvp",
     "Es9vMFrzaCERmJfrF4H2FYD4KCoNkY11McCe8BenwNYB",
     "MangoCzJ36AjZyKwVj3VnYU4GTonjfVEnJmvvWaxLac",
     "SRMuApVNdxXokk5GT7XD5cUUgXMBCoAz2LHeuAoKWRt",
     "So11111111111111111111111111111111111111112",
     "StepAscQoEioFxxWGnh2sLBDFp9d8rvKz2Yp39iDpyT",
     "kinXdEcpDQeHPEuQnqmUgtYykqKGVFq6CeVX5iAHJq6",
     "orcaEKTdK7LKz57vaAYr9QeNsVEPfiu6QeMU1kektZE" >>

\* a toLowerCase that leaves the name as it was given
toLowerCase_asGiven(s) == s

\* String.prototype.toLowerCase on the network names the model uses
toLowerCase(s) ==
  CASE s \in {"Solana", "SOLANA", "sOlAnA"} -> "solana"
    [] s \in {"Ethereum", "ETHEREUM"} -> "ethereum"
    [] s \in {"Base", "BASE"} -> "base"
    [] s \in {"Polygon", "POLYGON"} -> "polygon"
    [] s = "DogeChain" -> "dogechain"
    [] OTHER -> s

\* Array.prototype.includes
includes(arr, x) == \E i \in DOMAIN arr : arr[i] = x

getStablecoinAddresses(network) ==
  LET key == toLowerCase(network)
  IN  IF key \in DOMAIN networks THEN networks[key].stablecoins ELSE << >>

getKnownTokenMapping(network) ==
  LET key == toLowerCase(network)
  IN  IF key \in DOMAIN networks THEN networks[key].knownTokens ELSE << >>

isStablecoin(tokenAddress, network) ==
  includes(getStablecoinAddresses(network), tokenAddress)

\* the names every object inherits from Object.prototype: obj[name] gives the
\* inherited member, and (name in obj) is true, for an object that has no
\* key of that name
InheritedNames ==
  {"constructor", "__proto__", "hasOwnProperty", "isPrototypeOf",
   "propertyIsEnumerable", "toLocaleString", "toString", "valueOf",
   "__defineGetter__", "__defineSetter__", "__lookupGetter__",
   "__lookupSetter__"}

\* what obj[name] gives for an inherited name
inherited == "<inherited>"

\* return knownTokens[tokenAddress]
getCoinGeckoId(tokenAddress, network) ==
  LET knownTokens == getKnownTokenMapping(network)
  IN  IF tokenAddress \in DOMAIN knownTokens THEN knownTokens[tokenAddress]
      ELSE IF tokenAddress \in InheritedNames THEN inherited
      ELSE undefined

\* Object.keys(this.networks)
getSupportedNetworks == << "solana", "ethereum", "polygon", "base" >>

\* network.toLowerCase() in this.networks
isNetworkSupported(network) ==
  \/ toLowerCase(network) \in DOMAIN networks
  \/ toLowerCase(network) \in InheritedNames

(***************************************************************************)
(* JavaScript helpers                                                      *)
(***************************************************************************)
\* position of a string in the UTF-16 code-unit order Array.prototype.sort uses
Rank(a) == CHOOSE i \in DOMAIN CodeUnitOrder : CodeUnitOrder[i] = a

\* one step of the sort: s is sorted, a is placed after the elements not above it
SortInsert(s, a) ==
  LET k == Cardinality({i \in DOMAIN s : Rank(s[i]) <= Rank(a)})
  IN  SubSeq(s, 1, k) \o << a >> \o SubSeq(s, k + 1, Len(s))

\* a sort that leaves the list as the caller gave it
sort_asGiven(arr) == arr

RECURSIVE sort(_)
\* Array.prototype.sort() without a comparator
sort(arr) ==
  IF arr = << >> THEN << >>
  ELSE SortInsert(sort(SubSeq(arr, 1, Len(arr) - 1)), arr[Len(arr)])

\* parseFloat on the decimal strings the upstream sends
parseFloat(s) ==
  CASE s = "0" -> 0
    [] s = "3" -> 3
    [] OTHER -> NaN

\* truthiness of a string-or-absent field ("none" stands for an absent field)
TruthyField(s) == s # "none" /\ s # ""

\* truthiness of a number
TruthyNumber(n) == n # 0 /\ n # NaN

\* truthiness of priceMap[addr]: a missing key reads as undefined
TruthyPrice(priceMap, addr) ==
  addr \in DOMAIN priceMap /\ TruthyNumber(priceMap[addr])

\* prices[addr] || 0
PriceOrZero(prices, addr) ==
  IF TruthyPrice(prices, addr) THEN prices[addr] ELSE 0

\* the object {} as a price map
EmptyMap == [a \in {} |-> 0]

\* priceMap[address] = price
SetPrice(priceMap, address, price) ==
  [a \in DOMAIN priceMap \cup {address} |->
     IF a = address THEN price ELSE priceMap[a]]

\* the elements of a list, as a set
Elems(arr) == {arr[i] : i \in DOMAIN arr}

(***************************************************************************)
(* The request cache                                                       *)
(***************************************************************************)
\* `prices_${tokenAddresses.sort().join(',')}`
PricesKey(sortedAddresses) == [prefix |-> "prices_", parts |-> sortedAddresses]

\* 'solana_price'
SolanaPriceKey == [prefix |-> "solana_price", parts |-> << >>]

\* `token_data_${network}_${tokenAddress}`
TokenDataKey(network, tokenAddress) ==
  [prefix |-> "token_data_", parts |-> << network, tokenAddress >>]

\* the values kept in the cache and returned by the methods
MapValue(m) == [kind |-> "map", map |-> m]

NumValue(n) == [kind |-> "num", num |-> n]

RecValue(r) == [kind |-> "rec", rec |-> r]

null == [kind |-> "null"]

\* truthiness of what getCachedData returned
Truthy(v) ==
  CASE v.kind = "null" -> FALSE
    [] v.kind = "num" -> TruthyNumber(v.num)
    [] OTHER -> TRUE

\* Map.prototype.delete
CacheDelete(cache, key) == [k \in DOMAIN cache \ {key} |-> cache[k]]

\* a getCachedData that treats an entry exactly cacheTimeout old as live
getCachedData_lateExpiry(cache, key, t) ==
  IF key \in DOMAIN cache /\ t - cache[key].timestamp <= cacheTimeout
  THEN [data |-> cache[key].data, cache |-> cache]
  ELSE IF key \in DOMAIN cache
       THEN [data |-> null, cache |-> [k \in DOMAIN cache \ {key} |-> cache[k]]]
       ELSE [data |-> null, cache |-> cache]

\* a getCachedData that renews the timestamp of the entry it returns
getCachedData_sliding(cache, key, t) ==
  IF key \in DOMAIN cache /\ t - cache[key].timestamp < cacheTimeout
  THEN [data |-> cache[key].data,
        cache |-> [cache EXCEPT ![key].timestamp = t]]
  ELSE IF key \in DOMAIN cache
       THEN [data |-> null, cache |-> [k \in DOMAIN cache \ {key} |-> cache[k]]]
       ELSE [data |-> null, cache |-> cache]

\* getCachedData: the value returned and the cache it leaves
getCachedData(cache, key, t) ==
  IF key \in DOMAIN cache /\ t - cache[key].timestamp < cacheTimeout
  THEN [data |-> cache[key].data, cache |-> cache]
  ELSE IF key \in DOMAIN cache
       THEN [data |-> null, cache |-> CacheDelete(cache, key)]
       ELSE [data |-> null, cache |-> cache]

\* setCachedData
setCachedData(cache, key, data, t) ==
  [k \in DOMAIN cache \cup {key} |->
     IF k = key THEN [data |-> data, timestamp |-> t] ELSE cache[k]]

(***************************************************************************)
(* Upstream: what the price provider may answer                            *)
(***************************************************************************)
\* attributes.price_usd of one token in an on-chain response
PriceFields == {"none", "0", "3"}

\* usd of a /simple/price response
UsdValues == {0, 2}

\* the answers that carry no payload: fetch rejects (transport error),
\* response.ok is false (non-success status), response.json() rejects or
\* gives null (malformed payload)
FailureKinds == {"error", "status", "badjson"}

\* answers to GET /onchain/networks/{network}/tokens/multi/{addresses}:
\* data.data[a].attributes.price_usd for the addresses asked for, and one
\* answer that prices every address of the caller's list, asked for or not
BulkOutcomes(requested, others) ==
  {[kind |-> k, data |-> [a \in requested \cup others |-> "none"]] :
     k \in FailureKinds}
    \cup {[kind |-> "ok",
           data |-> [a \in requested \cup others |->
                       IF a \in requested THEN d[a] ELSE "none"]] :
           d \in [requested -> PriceFields]}
    \cup {[kind |-> "ok", data |-> [a \in requested \cup others |-> "3"]]}

\* answers to GET /simple/price?ids={id}&vs_currencies=usd
SimpleOutcomes ==
  {[kind |-> k, usd |-> 0] : k \in FailureKinds}
    \cup {[kind |-> "ok", usd |-> u] : u \in UsdValues}

\* no call is made
NoCall == [kind |-> "nocall", usd |-> 0]

NoBulk == [kind |-> "nocall", data |-> << >>]

\* an upstream call as the provider sees it; failed: it priced nothing
UpstreamCall(api, network, addresses, id, outcome) ==
  [api |-> api, network |-> network, addresses |-> addresses, id |-> id,
   failed |-> outcome.kind \in FailureKinds]

(***************************************************************************)
(* CoinGeckoAPIService.getTokenPrices                                      *)
(* The method is a chain of steps: each step is an operator that takes     *)
(* what the steps before it computed and hands it to the next step.        *)
(***************************************************************************)
\* a filter that lets the blank addresses through
ValidAddresses_keepsBlank(tokenAddresses) == tokenAddresses

\* validAddresses: tokenAddresses.filter(addr => addr && addr.length > 0)
ValidAddresses(tokenAddresses) ==
  SelectSeq(tokenAddresses, LAMBDA addr : addr # "")

\* the stablecoin loop: priceMap[address] = 1.0 for the stablecoins
StablecoinPrices(validAddresses, network) ==
  LET stablecoins == getStablecoinAddresses(network)
  IN  [a \in {x \in Elems(validAddresses) : includes(stablecoins, x)} |->
         StablecoinPrice]

\* nonStablecoinAddresses
NonStablecoinAddresses(validAddresses, network) ==
  LET stablecoins == getStablecoinAddresses(network)
  IN  SelectSeq(validAddresses, LAMBDA addr : ~includes(stablecoins, addr))

\* the body of the try around the on-chain request
TryOnchainMulti(priceMap, nonStablecoinAddresses, bulk) ==
  CASE bulk.kind \in {"error", "badjson"} ->
         [threw |-> TRUE, priceMap |-> priceMap]
    [] bulk.kind = "status" ->
         [threw |-> FALSE, priceMap |-> priceMap]
    [] OTHER ->
         LET priced == {a \in Elems(nonStablecoinAddresses) :
                          TruthyField(bulk.data[a])}
         IN  [threw |-> FALSE,
              priceMap |-> [a \in DOMAIN priceMap \cup priced |->
                              IF a \in priced THEN parseFloat(bulk.data[a])
                              ELSE priceMap[a]]]

\* a catch clause that throws the failure on
CatchOnchain_rethrow(r, priceMap) == r

\* catch (onchainError): the failure is logged and the tier produced nothing
CatchOnchain(r, priceMap) ==
  IF r.threw THEN [threw |-> FALSE, priceMap |-> priceMap] ELSE r

\* unmappedAddresses
UnmappedAddresses(nonStablecoinAddresses, priceMap) ==
  SelectSeq(nonStablecoinAddresses, LAMBDA addr : ~TruthyPrice(priceMap, addr))

\* the body of the try around one /simple/price request
TrySimplePrice(priceMap, address, out) ==
  CASE out.kind \in {"error", "badjson"} ->
         [threw |-> TRUE, priceMap |-> priceMap]
    [] out.kind = "ok" /\ TruthyNumber(out.usd) ->
         [threw |-> FALSE, priceMap |-> SetPrice(priceMap, address, out.usd)]
    [] OTHER -> [threw |-> FALSE, priceMap |-> priceMap]

\* catch (fallbackError)
CatchFallback(r, priceMap) ==
  IF r.threw THEN [threw |-> FALSE, priceMap |-> priceMap] ELSE r

\* one turn of the fallback loop has made its request: r is what it left
AfterSimplePrice(st, r, tokenId, out) ==
  [priceMap |-> r.priceMap,
   calls |-> Append(st.calls, UpstreamCall("simple_price", "", << >>, tokenId, out)),
   threw |-> r.threw]

\* a turn that makes no request for an address the map already prices
FallbackTurn_skipsPriced(st, address, tokenId, out) ==
  IF tokenId = undefined \/ TruthyPrice(st.priceMap, address) THEN st
  ELSE AfterSimplePrice(
         st,
         CatchFallback(TrySimplePrice(st.priceMap, address, out), st.priceMap),
         tokenId, out)

\* one turn of the fallback loop, for an address and its ID
FallbackTurn(st, address, tokenId, out) ==
  IF tokenId = undefined THEN st
  ELSE AfterSimplePrice(
         st,
         CatchFallback(TrySimplePrice(st.priceMap, address, out), st.priceMap),
         tokenId, out)

RECURSIVE FallbackLoop(_, _, _, _, _)
\* for (const address of unmappedAddresses): from index i on, one request at a
\* time; st is [priceMap, calls, threw]
FallbackLoop(st, unmappedAddresses, network, simple, i) ==
  IF i > Len(unmappedAddresses) \/ st.threw THEN st
  ELSE FallbackLoop(
         FallbackTurn(st, unmappedAddresses[i],
                      getCoinGeckoId(unmappedAddresses[i], network), simple[i]),
         unmappedAddresses, network, simple, i + 1)

\* what a method hands back: its value, whether it raised, the cache it leaves,
\* the upstream calls it made, whether the value came from the cache, and the
\* caller's list after the call
Outcome(result, raised, cache, calls, hit, list) ==
  [result |-> result, raised |-> raised, cache |-> cache, calls |-> calls,
   hit |-> hit, list |-> list]

\* a store that does not look at the map
StoreIfAny_always(cache, cacheKey, priceMap, t) ==
  setCachedData(cache, cacheKey, MapValue(priceMap), t)

\* a store that keeps a map only when it prices every address of the key
StoreIfAny_whenComplete(cache, cacheKey, priceMap, t) ==
  IF Elems(cacheKey.parts) \subseteq DOMAIN priceMap
  THEN setCachedData(cache, cacheKey, MapValue(priceMap), t)
  ELSE cache

\* if (Object.keys(priceMap).length > 0) this.setCachedData(cacheKey, priceMap)
StoreIfAny(cache, cacheKey, priceMap, t) ==
  IF Cardinality(DOMAIN priceMap) > 0
  THEN setCachedData(cache, cacheKey, MapValue(priceMap), t)
  ELSE cache

\* the end of the try: done is what the fallback loop left
StoreAndReturn(cache, t, sorted, done) ==
  IF done.threw
  THEN Outcome(done.priceMap, TRUE, cache, done.calls, FALSE, sorted)
  ELSE Outcome(done.priceMap, FALSE,
               StoreIfAny(cache, PricesKey(sorted), done.priceMap, t),
               done.calls, FALSE, sorted)

\* the fallback tier: onchain is what the on-chain tier left
FallbackTier(cache, t, sorted, onchain, nonStablecoinAddresses, network, bulk, simple) ==
  StoreAndReturn(
    cache, t, sorted,
    FallbackLoop(
      [priceMap |-> onchain.priceMap,
       calls |-> << UpstreamCall("onchain_multi", network,
                                 nonStablecoinAddresses, "", bulk) >>,
       threw |-> onchain.threw],
      UnmappedAddresses(nonStablecoinAddresses, onchain.priceMap),
      network, simple, 1))

\* after the stablecoin loop: stable is the price map it left
OnchainTier(cache, t, sorted, stable, nonStablecoinAddresses, network, bulk, simple) ==
  IF Len(nonStablecoinAddresses) = 0
  THEN Outcome(stable, FALSE,
               setCachedData(cache, PricesKey(sorted), MapValue(stable), t),
               << >>, FALSE, sorted)
  ELSE FallbackTier(
         cache, t, sorted,
         CatchOnchain(TryOnchainMulti(stable, nonStablecoinAddresses, bulk),
                      stable),
         nonStablecoinAddresses, network, bulk, simple)

\* after the cache lookup: cached is what getCachedData gave
AfterCacheLookup(cached, t, sorted, validAddresses, network, bulk, simple) ==
  IF Truthy(cached.data)
  THEN Outcome(cached.data.map, FALSE, cached.cache, << >>, TRUE, sorted)
  ELSE IF Len(validAddresses) = 0
  THEN Outcome(EmptyMap, FALSE, cached.cache, << >>, FALSE, sorted)
  ELSE OnchainTier(cached.cache, t, sorted,
                   StablecoinPrices(validAddresses, network),
                   NonStablecoinAddresses(validAddresses, network),
                   network, bulk, simple)

\* the body of the try of getTokenPrices; sorted is the caller's list after
\* tokenAddresses.sort()
getTokenPricesBody(cache, t, sorted, network, bulk, simple) ==
  AfterCacheLookup(getCachedData(cache, PricesKey(sorted), t), t, sorted,
                   ValidAddresses(sorted), network, bulk, simple)

\* the outer catch of getTokenPrices: return {}
CatchPrices(o) ==
  IF o.raised THEN [o EXCEPT !.result = EmptyMap, !.raised = FALSE] ELSE o

\* a getTokenPrices that sorts a copy of the list
getTokenPrices_sortsCopy(cache, t, tokenAddresses, network, bulk, simple) ==
  IF Len(tokenAddresses) = 0
  THEN Outcome(EmptyMap, FALSE, cache, << >>, FALSE, tokenAddresses)
  ELSE [CatchPrices(
          getTokenPricesBody(cache, t, sort(tokenAddresses), network, bulk,
                             simple))
          EXCEPT !.list = tokenAddresses]

getTokenPrices(cache, t, tokenAddresses, network, bulk, simple) ==
  IF Len(tokenAddresses) = 0
  THEN Outcome(EmptyMap, FALSE, cache, << >>, FALSE, tokenAddresses)
  ELSE CatchPrices(
         getTokenPricesBody(cache, t, sort(tokenAddresses), network, bulk,
                            simple))

\* the on-chain request is made: the list is not empty, its key has no live
\* entry, and it holds an address that is no stablecoin
GoesOnchain(cached, nonStablecoinAddresses) ==
  ~Truthy(cached.data) /\ Len(nonStablecoinAddresses) > 0

\* the outcomes of the on-chain request for the addresses asked for
BulkChoicesFor(cached, validAddresses, nonStablecoinAddresses) ==
  IF GoesOnchain(cached, nonStablecoinAddresses)
  THEN BulkOutcomes(Elems(nonStablecoinAddresses), Elems(validAddresses))
  ELSE {NoBulk}

\* the outcomes of the on-chain request a getTokenPrices call can meet
BulkChoices(cache, t, tokenAddresses, network) ==
  IF Len(tokenAddresses) = 0 THEN {NoBulk}
  ELSE BulkChoicesFor(
         getCachedData(cache, PricesKey(sort(tokenAddresses)), t),
         ValidAddresses(sort(tokenAddresses)),
         NonStablecoinAddresses(ValidAddresses(sort(tokenAddresses)), network))

\* one outcome per element of unmappedAddresses that has a mapped ID
SimpleChoicesFor(unmapped, network) ==
  {f \in [1 .. Len(unmapped) -> SimpleOutcomes \cup {NoCall}] :
     \A i \in 1 .. Len(unmapped) :
       (f[i] = NoCall) <=> (getCoinGeckoId(unmapped[i], network) = undefined)}

\* the addresses the on-chain answer leaves without a price
UnmappedAfter(stable, nonStablecoinAddresses, bulk) ==
  UnmappedAddresses(
    nonStablecoinAddresses,
    CatchOnchain(TryOnchainMulti(stable, nonStablecoinAddresses, bulk),
                 stable).priceMap)

\* the outcomes of the /simple/price requests that follow the on-chain request
SimpleChoices(tokenAddresses, network, bulk) ==
  IF bulk.kind = "nocall" THEN {<< >>}
  ELSE SimpleChoicesFor(
         UnmappedAfter(
           StablecoinPrices(ValidAddresses(sort(tokenAddresses)), network),
           NonStablecoinAddresses(ValidAddresses(sort(tokenAddresses)), network),
           bulk),
         network)

(***************************************************************************)
(* CoinGeckoAPIService.getTokenPrice                                       *)
(***************************************************************************)
\* return prices[tokenAddress] || 0
PriceOf(prices, tokenAddress) ==
  [prices EXCEPT !.result = IF prices.raised THEN 0
                            ELSE PriceOrZero(prices.result, tokenAddress)]

\* the catch of getTokenPrice: return 0
CatchPrice(o) ==
  IF o.raised THEN [o EXCEPT !.result = 0, !.raised = FALSE] ELSE o

getTokenPrice(cache, t, tokenAddress, network, bulk, simple) ==
  CatchPrice(
    PriceOf(getTokenPrices(cache, t, << tokenAddress >>, network, bulk, simple),
            tokenAddress))

(***************************************************************************)
(* CoinGeckoAPIService.getSolanaPrice                                      *)
(***************************************************************************)
\* a direct lookup that is never made
NeedsDirectLookup_never(price) == FALSE

\* if (price === 0): the direct /simple/price?ids=solana lookup is made
NeedsDirectLookup(price) == price = 0

\* the body of the try around the direct lookup: the price it leaves
TryDirectPrice(price, direct) ==
  CASE direct.kind \in {"error", "badjson"} -> [threw |-> TRUE, price |-> price]
    [] direct.kind = "ok" ->
         [threw |-> FALSE,
          price |-> IF TruthyNumber(direct.usd) THEN direct.usd ELSE 0]
    [] OTHER -> [threw |-> FALSE, price |-> price]

\* catch (directError)
CatchDirect(r, price) ==
  IF r.threw THEN [threw |-> FALSE, price |-> price] ELSE r

\* if (price > 0) this.setCachedData(cacheKey, price)
StorePositive(cache, cacheKey, price, t) ==
  IF price > 0 THEN setCachedData(cache, cacheKey, NumValue(price), t) ELSE cache

\* what getSolanaPrice hands back: as Outcome, with the map getTokenPrices
\* returned to it and the upstream calls getTokenPrices made for it
SolanaOutcome(result, raised, cache, calls, hit, inner, innerCalls) ==
  [result |-> result, raised |-> raised, cache |-> cache, calls |-> calls,
   hit |-> hit, inner |-> inner, innerCalls |-> innerCalls]

\* the end of the try: second is what the direct lookup left
StoreAndReturnSolana(prices, second, directCalls, t) ==
  IF prices.raised \/ second.threw
  THEN SolanaOutcome(second.price, TRUE, prices.cache,
                     prices.calls \o directCalls, FALSE,
                     prices.result, prices.calls)
  ELSE SolanaOutcome(second.price, FALSE,
                     StorePositive(prices.cache, SolanaPriceKey, second.price, t),
                     prices.calls \o directCalls, FALSE,
                     prices.result, prices.calls)

\* Method 2: first is prices[solMintAddress] || 0
DirectTier(prices, first, direct, t) ==
  IF NeedsDirectLookup(first)
  THEN StoreAndReturnSolana(
         prices, CatchDirect(TryDirectPrice(first, direct), first),
         << UpstreamCall("simple_price", "", << >>, "solana", direct) >>, t)
  ELSE StoreAndReturnSolana(prices, [threw |-> FALSE, price |-> first],
                            << >>, t)

\* Method 1 has answered: prices is what getTokenPrices handed back
AfterTokenPrices(prices, direct, t) ==
  DirectTier(prices, PriceOrZero(prices.result, solMintAddress), direct, t)

\* after the cache lookup: cached is what getCachedData gave
AfterSolanaLookup(cached, t, bulk, simple, direct) ==
  IF Truthy(cached.data)
  THEN SolanaOutcome(cached.data.num, FALSE, cached.cache, << >>, TRUE,
                     EmptyMap, << >>)
  ELSE AfterTokenPrices(
         getTokenPrices(cached.cache, t, << solMintAddress >>, "solana",
                        bulk, simple),
         direct, t)

\* the body of the try of getSolanaPrice
getSolanaPriceBody(cache, t, bulk, simple, direct) ==
  AfterSolanaLookup(getCachedData(cache, SolanaPriceKey, t), t, bulk, simple,
                    direct)

\* the outer catch of getSolanaPrice: return 0
CatchSolana(o) ==
  IF o.raised THEN [o EXCEPT !.result = 0, !.raised = FALSE] ELSE o

getSolanaPrice(cache, t, bulk, simple, direct) ==
  CatchSolana(getSolanaPriceBody(cache, t, bulk, simple, direct))

\* the outcomes of the on-chain request a getSolanaPrice call can meet
SolanaBulkChoicesFor(cached, t) ==
  IF Truthy(cached.data) THEN {NoBulk}
  ELSE BulkChoices(cached.cache, t, << solMintAddress >>, "solana")

SolanaBulkChoices(cache, t) ==
  SolanaBulkChoicesFor(getCachedData(cache, SolanaPriceKey, t), t)

\* the outcomes of the direct lookup, when getTokenPrices handed back prices
DirectChoicesFor(cached, t, bulk, simple) ==
  IF Truthy(cached.data) THEN {NoCall}
  ELSE IF NeedsDirectLookup(
            PriceOrZero(
              getTokenPrices(cached.cache, t, << solMintAddress >>, "solana",
                             bulk, simple).result,
              solMintAddress))
  THEN SimpleOutcomes
  ELSE {NoCall}

\* the outcomes of the direct lookup a getSolanaPrice call can meet
DirectChoices(cache, t, bulk, simple) ==
  DirectChoicesFor(getCachedData(cache, SolanaPriceKey, t), t, bulk, simple)

(***************************************************************************)
(* TokenRegistry.getStablecoinMetadata                                     *)
(***************************************************************************)
\* the address patterns of USDC
UsdcPatterns ==
  {"833589fCD6eDb6E08f4c7C32D4f71b54bdA02913",
   "EPjFWdd5AufqSSqeM2qN1xzybapC8G4wEGGkZwyTDt1v",
   "A0b86a33E6441b8C4505B8C4505B8C4505B8C4505",
   "2791Bca1f2de4661ED88A30C99A7a9449Aa84174"}

\* String.prototype.includes on the addresses of the registry: an address
\* holds a pattern when it is the pattern, or the pattern after "0x"
includesText(address, pattern) ==
  address = pattern \/ address = "0x" \o pattern

\* a metadata list with an entry for the first stablecoin of the network only
getStablecoinMetadata_firstOnly(network) ==
  LET stablecoins == SubSeq(getStablecoinAddresses(network), 1, 1)
  IN  [i \in DOMAIN stablecoins |->
         [address |-> stablecoins[i], symbol |-> "USDC", name |-> "USD Coin",
          decimals |-> DefaultDecimals]]

\* one entry per stablecoin of the network
getStablecoinMetadata(network) ==
  LET stablecoins == getStablecoinAddresses(network)
  IN  [i \in DOMAIN stablecoins |->
         LET address == stablecoins[i]
             isUSDC == \E p \in UsdcPatterns : includesText(address, p)
         IN  [address |-> address,
              symbol |-> IF isUSDC THEN "USDC" ELSE "USDT",
              name |-> IF isUSDC THEN "USD Coin" ELSE "Tether USD",
              decimals |-> DefaultDecimals]]

(***************************************************************************)
(* CoinGeckoAPIService.getTokenData                                        *)
(***************************************************************************)
\* String.prototype.toUpperCase on the symbols the model uses
toUpperCase(s) ==
  CASE s = "sol" -> "SOL"
    [] s = "ray" -> "RAY"
    [] OTHER -> s

\* obj[field] = value
SetField(obj, field, value) ==
  [f \in DOMAIN obj \cup {field} |-> IF f = field THEN value ELSE obj[f]]

\* data.data.attributes of an on-chain token response; price_usd is a decimal
\* string or absent, decimals is absent when hasDecimals is false
NoAttrs ==
  [present |-> FALSE, name |-> "", symbol |-> "", hasDecimals |-> FALSE,
   decimals |-> 0, price_usd |-> "none"]

AttrPayloads ==
  {[present |-> TRUE, name |-> "Wrapped SOL", symbol |-> "SOL",
    hasDecimals |-> p # "none", decimals |-> IF p # "none" THEN 9 ELSE 0,
    price_usd |-> p] : p \in PriceFields}

\* answers to GET /onchain/networks/{network}/tokens/{address}
MetaOutcomes ==
  {[kind |-> k, attrs |-> NoAttrs] : k \in FailureKinds \cup {"ok"}}
    \cup {[kind |-> "ok", attrs |-> a] : a \in AttrPayloads}

NoMeta == [kind |-> "nocall", attrs |-> NoAttrs]

\* answers to GET /coins/{id}: the coin's id, name and symbol, and
\* market_data.current_price.usd (0 when the payload carries no price)
CoinsOutcomes(id) ==
  {[kind |-> k, id |-> id, name |-> id, symbol |-> "sol", usd |-> 0] :
     k \in FailureKinds}
    \cup {[kind |-> "ok", id |-> id, name |-> id, symbol |-> "sol", usd |-> u] :
            u \in UsdValues}

NoCoins == [kind |-> "nocall", id |-> "", name |-> "", symbol |-> "", usd |-> 0]

\* a stablecoin record that ignores the registry's metadata
StablecoinTokenData_generic(tokenData, tokenAddress, network) ==
  SetField(SetField(SetField(SetField(tokenData,
    "price_usd", StablecoinPrice),
    "symbol", "STABLECOIN"),
    "name", "Stablecoin"),
    "decimals", DefaultDecimals)

\* stablecoinMetadata.find(s => s.address === tokenAddress): the entries that
\* match, first to last
FindMetadata(stablecoinMetadata, tokenAddress) ==
  SelectSeq(stablecoinMetadata, LAMBDA s : s.address = tokenAddress)

\* the stablecoin fields, from what find gave (metadata?.x || default)
WithMetadata(tokenData, found) ==
  SetField(SetField(SetField(SetField(tokenData,
    "price_usd", StablecoinPrice),
    "symbol", IF Len(found) > 0 /\ found[1].symbol # ""
              THEN found[1].symbol ELSE "STABLECOIN"),
    "name", IF Len(found) > 0 /\ found[1].name # ""
            THEN found[1].name ELSE "Stablecoin"),
    "decimals", IF Len(found) > 0 /\ TruthyNumber(found[1].decimals)
                THEN found[1].decimals ELSE DefaultDecimals)

\* the stablecoin branch: price 1.0, and symbol, name and decimals of the
\* metadata entry found for the address
StablecoinTokenData(tokenData, tokenAddress, network) ==
  WithMetadata(tokenData,
               FindMetadata(getStablecoinMetadata(network), tokenAddress))

\* an on-chain answer that counts only when it carries a price
HasAttributes_priced(meta) ==
  meta.kind = "ok" /\ meta.attrs.present /\ TruthyField(meta.attrs.price_usd)

\* response.ok && data.data && data.data.attributes
HasAttributes(meta) == meta.kind = "ok" /\ meta.attrs.present

\* the record filled from the attributes of the on-chain answer
FromAttributes(tokenData, attrs) ==
  LET named == SetField(SetField(tokenData, "name", attrs.name),
                        "symbol", attrs.symbol)
      withDecimals == IF attrs.hasDecimals
                      THEN SetField(named, "decimals", attrs.decimals)
                      ELSE named
  IN  IF TruthyField(attrs.price_usd)
      THEN SetField(withDecimals, "price_usd", parseFloat(attrs.price_usd))
      ELSE withDecimals

\* the body of the try around the on-chain token request; done: it returned
TryOnchainToken(tokenData, meta) ==
  CASE meta.kind \in {"error", "badjson"} ->
         [threw |-> TRUE, done |-> FALSE, tokenData |-> tokenData]
    [] HasAttributes(meta) ->
         [threw |-> FALSE, done |-> TRUE,
          tokenData |-> FromAttributes(tokenData, meta.attrs)]
    [] OTHER -> [threw |-> FALSE, done |-> FALSE, tokenData |-> tokenData]

\* catch (onchainError) of getTokenData
CatchOnchainToken(r, tokenData) ==
  IF r.threw THEN [threw |-> FALSE, done |-> FALSE, tokenData |-> tokenData]
  ELSE r

\* the record filled from the answer of the coins API
FromCoin(tokenData, coins) ==
  LET filled == SetField(SetField(SetField(tokenData,
                  "coingecko_id", coins.id),
                  "name", coins.name),
                  "symbol", toUpperCase(coins.symbol))
  IN  IF TruthyNumber(coins.usd) THEN SetField(filled, "price_usd", coins.usd)
      ELSE filled

\* the body of the try around the coins request
TryCoins(tokenData, coins) ==
  CASE coins.kind \in {"error", "badjson"} ->
         [threw |-> TRUE, done |-> FALSE, tokenData |-> tokenData]
    [] coins.kind = "ok" ->
         [threw |-> FALSE, done |-> TRUE, tokenData |-> FromCoin(tokenData, coins)]
    [] OTHER -> [threw |-> FALSE, done |-> FALSE, tokenData |-> tokenData]

\* catch (fallbackError) of getTokenData
CatchCoins(r, tokenData) ==
  IF r.threw THEN [threw |-> FALSE, done |-> FALSE, tokenData |-> tokenData]
  ELSE r

\* a price-only tier that stores the absent result
PriceOnlyTier_storesNull(cacheKey, t, tokenData, calls, priced) ==
  IF priced.raised
  THEN Outcome(null, TRUE, priced.cache, calls \o priced.calls, FALSE, << >>)
  ELSE IF priced.result > 0
  THEN Outcome(RecValue(SetField(tokenData, "price_usd", priced.result)), FALSE,
               setCachedData(priced.cache, cacheKey,
                             RecValue(SetField(tokenData, "price_usd",
                                               priced.result)), t),
               calls \o priced.calls, FALSE, << >>)
  ELSE Outcome(null, FALSE, setCachedData(priced.cache, cacheKey, null, t),
               calls \o priced.calls, FALSE, << >>)

\* a price-only tier that returns the record and does not store it
PriceOnlyTier_unstored(cacheKey, t, tokenData, calls, priced) ==
  IF priced.raised
  THEN Outcome(null, TRUE, priced.cache, calls \o priced.calls, FALSE, << >>)
  ELSE IF priced.result > 0
  THEN Outcome(RecValue(SetField(tokenData, "price_usd", priced.result)), FALSE,
               priced.cache, calls \o priced.calls, FALSE, << >>)
  ELSE Outcome(null, FALSE, priced.cache, calls \o priced.calls, FALSE, << >>)

\* the end of the try: priced is what getTokenPrice handed back
PriceOnlyTier(cacheKey, t, tokenData, calls, priced) ==
  IF priced.raised
  THEN Outcome(null, TRUE, priced.cache, calls \o priced.calls, FALSE, << >>)
  ELSE IF priced.result > 0
  THEN Outcome(RecValue(SetField(tokenData, "price_usd", priced.result)), FALSE,
               setCachedData(priced.cache, cacheKey,
                             RecValue(SetField(tokenData, "price_usd",
                                               priced.result)), t),
               calls \o priced.calls, FALSE, << >>)
  ELSE Outcome(null, FALSE, priced.cache, calls \o priced.calls, FALSE, << >>)

\* after the coins request: fallback is what it left
AfterCoins(cache, cacheKey, t, tokenAddress, network, tokenData, calls, fallback, bulk, simple) ==
  IF fallback.threw
  THEN Outcome(null, TRUE, cache, calls, FALSE, << >>)
  ELSE IF fallback.done
  THEN Outcome(RecValue(fallback.tokenData), FALSE,
               setCachedData(cache, cacheKey, RecValue(fallback.tokenData), t),
               calls, FALSE, << >>)
  ELSE PriceOnlyTier(
         cacheKey, t, tokenData, calls,
         getTokenPrice(cache, t, tokenAddress, network, bulk, simple))

\* a coins tier that makes its request a second time
CoinsTier_twice(cache, cacheKey, t, tokenAddress, network, tokenData, calls, coingeckoId, coins, bulk, simple) ==
  IF coingeckoId # undefined
  THEN AfterCoins(cache, cacheKey, t, tokenAddress, network, tokenData,
                  Append(Append(calls,
                                UpstreamCall("coins", "", << >>, coingeckoId,
                                             coins)),
                         UpstreamCall("coins", "", << >>, coingeckoId, coins)),
                  CatchCoins(TryCoins(tokenData, coins), tokenData),
                  bulk, simple)
  ELSE AfterCoins(cache, cacheKey, t, tokenAddress, network, tokenData, calls,
                  [threw |-> FALSE, done |-> FALSE, tokenData |-> tokenData],
                  bulk, simple)

\* the coins tier, for the ID the registry maps to the address
CoinsTier(cache, cacheKey, t, tokenAddress, network, tokenData, calls, coingeckoId, coins, bulk, simple) ==
  IF coingeckoId # undefined
  THEN AfterCoins(cache, cacheKey, t, tokenAddress, network, tokenData,
                  Append(calls,
                         UpstreamCall("coins", "", << >>, coingeckoId, coins)),
                  CatchCoins(TryCoins(tokenData, coins), tokenData),
                  bulk, simple)
  ELSE AfterCoins(cache, cacheKey, t, tokenAddress, network, tokenData, calls,
                  [threw |-> FALSE, done |-> FALSE, tokenData |-> tokenData],
                  bulk, simple)

\* after the on-chain token request: onchain is what it left
AfterOnchainToken(cache, cacheKey, t, tokenAddress, network, tokenData, calls, onchain, coins, bulk, simple) ==
  IF onchain.threw
  THEN Outcome(null, TRUE, cache, calls, FALSE, << >>)
  ELSE IF onchain.done
  THEN Outcome(RecValue(onchain.tokenData), FALSE,
               setCachedData(cache, cacheKey, RecValue(onchain.tokenData), t),
               calls, FALSE, << >>)
  ELSE CoinsTier(cache, cacheKey, t, tokenAddress, network, tokenData, calls,
                 getCoinGeckoId(tokenAddress, network), coins, bulk, simple)

\* the stablecoin branch stores and returns stable
ReturnStablecoin(cache, cacheKey, t, stable) ==
  Outcome(RecValue(stable), FALSE,
          setCachedData(cache, cacheKey, RecValue(stable), t),
          << >>, FALSE, << >>)

\* after the cache lookup: cached is what getCachedData gave, tokenData the
\* record with address and network
AfterDataLookup(cached, cacheKey, t, tokenAddress, network, tokenData, meta, coins, bulk, simple) ==
  IF Truthy(cached.data)
  THEN Outcome(cached.data, FALSE, cached.cache, << >>, TRUE, << >>)
  ELSE IF isStablecoin(tokenAddress, network)
  THEN ReturnStablecoin(cached.cache, cacheKey, t,
                        StablecoinTokenData(tokenData, tokenAddress, network))
  ELSE AfterOnchainToken(
         cached.cache, cacheKey, t, tokenAddress, network, tokenData,
         << UpstreamCall("onchain_token", network, << tokenAddress >>, "",
                         meta) >>,
         CatchOnchainToken(TryOnchainToken(tokenData, meta), tokenData),
         coins, bulk, simple)

\* the body of the try of getTokenData
getTokenDataBody(cache, t, tokenAddress, network, meta, coins, bulk, simple) ==
  AfterDataLookup(
    getCachedData(cache, TokenDataKey(network, tokenAddress), t),
    TokenDataKey(network, tokenAddress), t, tokenAddress, network,
    [address |-> tokenAddress, network |-> toLowerCase(network)],
    meta, coins, bulk, simple)

\* the outer catch of getTokenData: return null
CatchData(o) ==
  IF o.raised THEN [o EXCEPT !.result = null, !.raised = FALSE] ELSE o

getTokenData(cache, t, tokenAddress, network, meta, coins, bulk, simple) ==
  IF tokenAddress = ""
  THEN Outcome(null, FALSE, cache, << >>, FALSE, << >>)
  ELSE CatchData(getTokenDataBody(cache, t, tokenAddress, network, meta, coins,
                                  bulk, simple))

\* the outcomes of the on-chain token request a getTokenData call can meet
MetaChoices(cache, t, tokenAddress, network) ==
  IF /\ tokenAddress # ""
     /\ ~Truthy(getCachedData(cache, TokenDataKey(network, tokenAddress), t).data)
     /\ ~isStablecoin(tokenAddress, network)
  THEN MetaOutcomes
  ELSE {NoMeta}

\* the outcomes of the coins request that follows it
CoinsChoices(tokenAddress, network, meta) ==
  IF /\ meta.kind # "nocall"
     /\ ~HasAttributes(meta)
     /\ getCoinGeckoId(tokenAddress, network) # undefined
  THEN CoinsOutcomes(getCoinGeckoId(tokenAddress, network))
  ELSE {NoCoins}

\* the price-only lookup is made: neither answer gave a record
NeedsPriceOnly(meta, coins) ==
  meta.kind # "nocall" /\ ~HasAttributes(meta) /\ coins.kind # "ok"

\* the outcomes of the on-chain request of the price-only lookup
PriceOnlyBulkChoices(cache, t, tokenAddress, network, meta, coins) ==
  IF NeedsPriceOnly(meta, coins)
  THEN BulkChoices(
         getCachedData(cache, TokenDataKey(network, tokenAddress), t).cache,
         t, << tokenAddress >>, network)
  ELSE {NoBulk}

\* const price = await this.getTokenPrice(tokenAddress, network): whether the
\* call is made, and the number it hands back
PriceOnlyPrice(cache, t, tokenAddress, network, meta, coins, bulk, simple) ==
  IF NeedsPriceOnly(meta, coins)
  THEN [called |-> TRUE,
        price |-> getTokenPrice(
                    getCachedData(cache, TokenDataKey(network, tokenAddress),
                                  t).cache,
                    t, tokenAddress, network, bulk, simple).result]
  ELSE [called |-> FALSE, price |-> 0]

(***************************************************************************)
(* CoinGeckoAPIService.getTokenPricesBatch                                 *)
(***************************************************************************)
\* setTimeout(resolve, 200): the pause after a batch, in milliseconds
BatchDelay == 200

\* a slice that runs to the end of the list
slice_toEnd(arr, start, end) == SubSeq(arr, start + 1, Len(arr))

\* Array.prototype.slice(start, end), with 0 <= start <= end
slice(arr, start, end) ==
  SubSeq(arr, start + 1, IF end < Len(arr) THEN end ELSE Len(arr))

RECURSIVE Batches(_, _, _)
\* for (let i = 0; i < tokenAddresses.length; i += batchSize)
\*   batches.push(tokenAddresses.slice(i, i + batchSize)): the batches from
\* index i on
Batches(tokenAddresses, batchSize, i) ==
  IF i < Len(tokenAddresses)
  THEN << slice(tokenAddresses, i, i + batchSize) >>
         \o Batches(tokenAddresses, batchSize, i + batchSize)
  ELSE << >>

\* Object.assign(results, batchResults)
Assign(results, batchResults) ==
  [a \in DOMAIN results \cup DOMAIN batchResults |->
     IF a \in DOMAIN batchResults THEN batchResults[a] ELSE results[a]]

\* the record of one getTokenPrices call of the loop: the batch it was given,
\* what it handed back, and when it started
BatchCall(batch, o, t) ==
  [list |-> batch, result |-> o.result, raised |-> o.raised,
   calls |-> o.calls, hit |-> o.hit, at |-> t]

\* a loop that gives up at the first batch that brought no price
BatchTurn_stopsWhenEmpty(st, batch, o, count) ==
  IF o.raised \/ st.stopped \/ o.result = EmptyMap
  THEN [st EXCEPT !.cache = IF st.stopped THEN st.cache ELSE o.cache,
                  !.stopped = TRUE]
  ELSE [st EXCEPT !.cache = o.cache,
                  !.results = Assign(st.results, o.result),
                  !.turns = Append(st.turns, BatchCall(batch, o, st.t)),
                  !.t = IF count > 1 THEN st.t + BatchDelay ELSE st.t]

\* one turn of the loop over the batches: o is what getTokenPrices handed
\* back for the batch; when it raised, the catch clause logs and the loop
\* goes on, and the pause is skipped
BatchTurn(st, batch, o, count) ==
  IF o.raised
  THEN [st EXCEPT !.cache = o.cache,
                  !.turns = Append(st.turns, BatchCall(batch, o, st.t))]
  ELSE [st EXCEPT !.cache = o.cache,
                  !.results = Assign(st.results, o.result),
                  !.turns = Append(st.turns, BatchCall(batch, o, st.t)),
                  !.t = IF count > 1 THEN st.t + BatchDelay ELSE st.t]

RECURSIVE BatchLoop(_, _, _, _)
\* for (const batch of batches): every way the loop can end from batch k on,
\* over the answers the upstream can give to each getTokenPrices call;
\* st is [cache, t, results, turns, stopped]
BatchLoop(st, batches, network, k) ==
  IF k > Len(batches) THEN {st}
  ELSE UNION {
         UNION {
           BatchLoop(
             BatchTurn(st, batches[k],
                       getTokenPrices(st.cache, st.t, batches[k], network,
                                      bulk, simple),
                       Len(batches)),
             batches, network, k + 1) :
           simple \in SimpleChoices(batches[k], network, bulk)} :
         bulk \in BulkChoices(st.cache, st.t, batches[k], network)}

\* what getTokenPricesBatch hands back: as Outcome, with the calls to
\* getTokenPrices it made and the time at which it returned
BatchOutcome(result, raised, cache, turns, list, t) ==
  [result |-> result, raised |-> raised, cache |-> cache, turns |-> turns,
   list |-> list, t |-> t]

\* return this.getTokenPrices(tokenAddresses, network)
DelegateWhole(tokenAddresses, o, t) ==
  BatchOutcome(o.result, o.raised, o.cache,
               << BatchCall(tokenAddresses, o, t) >>, o.list, t)

\* return results
ReturnResults(tokenAddresses, st) ==
  BatchOutcome(st.results, FALSE, st.cache, st.turns, tokenAddresses, st.t)

\* every way a getTokenPricesBatch call can end
getTokenPricesBatch(cache, t, tokenAddresses, batchSize, network) ==
  IF Len(tokenAddresses) <= batchSize
  THEN UNION {
         {DelegateWhole(
            tokenAddresses,
            getTokenPrices(cache, t, tokenAddresses, network, bulk, simple),
            t) :
          simple \in SimpleChoices(tokenAddresses, network, bulk)} :
         bulk \in BulkChoices(cache, t, tokenAddresses, network)}
  ELSE {ReturnResults(tokenAddresses, st) :
          st \in BatchLoop(
                   [cache |-> cache, t |-> t, results |-> EmptyMap,
                    turns |-> << >>, stopped |-> FALSE],
                   Batches(tokenAddresses, batchSize, 0), network, 1)}

\* an index of slice as the array sees it: a negative one counts from the
\* end, and both ends are clamped to the array
SliceIndex(arr, index) ==
  IF index < 0
  THEN (IF Len(arr) + index < 0 THEN 0 ELSE Len(arr) + index)
  ELSE (IF index > Len(arr) THEN Len(arr) ELSE index)

\* Array.prototype.slice(start, end) for any two integers
sliceAny(arr, start, end) ==
  SubSeq(arr, SliceIndex(arr, start) + 1, SliceIndex(arr, end))

\* an increment that advances by one when the batch size is below one
NextIndex_atLeastOne(i, batchSize) ==
  i + (IF batchSize < 1 THEN 1 ELSE batchSize)

\* i += batchSize
NextIndex(i, batchSize) == i + batchSize

(***************************************************************************)
(* The token-data routes of createPriceRoutes (routes/prices.ts)           *)
(***************************************************************************)
StatusOk == 200

StatusNotFound == 404

StatusFailed == 500

DataByAddress == "GET /data/:address"

DataByNetwork == "GET /data/:network/:address"

\* req.query.network as string || 'solana'
QueryNetwork(query) == IF query = undefined \/ query = "" THEN "solana" ELSE query

\* res.status(404).json({ error: 'Token data not found', address, network })
NotFound(address, network) ==
  [status |-> StatusNotFound,
   body |-> [error |-> "Token data not found", address |-> address,
             network |-> network]]

\* res.json({ ...tokenData, timestamp: new Date().toISOString() })
Found(tokenData, t) ==
  [status |-> StatusOk, body |-> [timestamp |-> t] @@ tokenData.rec]

\* res.status(500).json({ error: 'Failed to fetch token data', ... })
Failed(address, network) ==
  [status |-> StatusFailed,
   body |-> [error |-> "Failed to fetch token data", address |-> address,
             network |-> network]]

\* the handler ends without answering
Unanswered == [status |-> "none", body |-> << >>]

\* a handler that answers 500 when every upstream request of the call failed
Answer_outageAsFailed(o, address, network, t) ==
  IF ~Truthy(o.result)
  THEN IF o.calls # << >> /\ \A i \in DOMAIN o.calls : o.calls[i].failed
       THEN Failed(address, network)
       ELSE NotFound(address, network)
  ELSE Found(o.result, t)

\* what both handlers do with the value getTokenData returned
Answer(o, address, network, t) ==
  IF ~Truthy(o.result)
  THEN NotFound(address, network)
  ELSE Found(o.result, t)

\* GET /data/:address; query is req.query.network, o what the awaited
\* getTokenData(address, network) came to
dataByAddress(o, address, query, t) ==
  IF o.raised
  THEN Failed(address, QueryNetwork(query))
  ELSE Answer(o, address, QueryNetwork(query), t)

\* GET /data/:network/:address. The catch clause names address and network,
\* which are declared inside the try block: evaluating it raises a
\* ReferenceError and no answer is sent
dataByNetwork(o, network, address, t) ==
  IF o.raised
  THEN Unanswered
  ELSE Answer(o, address, network, t)

(***************************************************************************)
(* The state machine                                                       *)
(***************************************************************************)
USDT_ADDR == "Es9vMFrzaCERmJfrF4H2FYD4KCoNkY11McCe8BenwNYB"

RAY_ADDR == "4k3Dyjzvzp8eMZWUXbBCjEvwSkkk59S5iCNLY3QrkX6R"

\* the addresses the callers pass: USDC of Solana (a stablecoin on solana,
\* unknown on ethereum) and wrapped SOL (a known token on solana with the ID
\* solana, unknown on ethereum)
Addrs == {USDC_ADDR, solMintAddress}

InputNetworks == {"solana", "ethereum"}

\* the one-address lists on every network
SingleRequests == {<< << a >>, n >> : a \in Addrs, n \in InputNetworks}

\* the getTokenPrices requests: every one-address list on every network, the
\* two-address lists in both orders on solana, the empty list, a blank address
PriceRequests ==
  SingleRequests
    \cup {<< l, "solana" >> : l \in {x \in Addrs \X Addrs : x[1] # x[2]}}
    \cup {<< << >>, "solana" >>, << << "" >>, "solana" >>}

\* wrapped SOL alone, on every network
SolRequests == {<< << solMintAddress >>, n >> : n \in InputNetworks}

\* as PriceRequests, and a list of two known tokens that are no stablecoins
WideRequests ==
  PriceRequests \cup {<< << solMintAddress, RAY_ADDR >>, "solana" >>}

\* the getTokenData requests: a known token, an unknown token, the two
\* stablecoins of solana, a stablecoin under a network name in capitals, a
\* blank address
DataRequests ==
  {<< solMintAddress, "solana" >>, << solMintAddress, "ethereum" >>,
   << USDC_ADDR, "solana" >>, << USDT_ADDR, "solana" >>,
   << USDC_ADDR, "SOLANA" >>, << "", "solana" >>}

\* what requestCache.get(key) holds when a call starts
PreEntry(key) ==
  IF key \in DOMAIN requestCache
  THEN [found |-> TRUE, timestamp |-> requestCache[key].timestamp,
        data |-> requestCache[key].data]
  ELSE [found |-> FALSE, timestamp |-> 0, data |-> null]

\* the prices an on-chain answer carried (none when the call failed)
Carried(bulk) ==
  IF bulk.kind = "ok"
  THEN [a \in {x \in DOMAIN bulk.data : bulk.data[x] # "none"} |-> bulk.data[a]]
  ELSE [a \in {} |-> ""]

\* the record of a completed call: its name and arguments, what it returned,
\* the upstream calls it made, the entry its key had when it started, the
\* prices the on-chain answer carried, and when it was made
Completed(op, tokenAddresses, network, o, key, bulk) ==
  [op |-> op, addrs |-> tokenAddresses, network |-> network,
   result |-> o.result, raised |-> o.raised, calls |-> o.calls, hit |-> o.hit,
   list |-> o.list, at |-> now, key |-> key, pre |-> PreEntry(key),
   carried |-> Carried(bulk)]

\* the record of a completed getSolanaPrice: also what getTokenPrices gave it
\* and the answer of the direct lookup
CompletedSolana(o, direct) ==
  [op |-> "getSolanaPrice", result |-> o.result, raised |-> o.raised,
   calls |-> o.calls, hit |-> o.hit, at |-> now, key |-> SolanaPriceKey,
   pre |-> PreEntry(SolanaPriceKey), inner |-> o.inner,
   innerCalls |-> o.innerCalls, direct |-> direct]

\* the record of a completed getTokenData: also the entry the price map of
\* the address had when it started, the answers of the on-chain token
\* request and of the coins request, and what getTokenPrice handed back
CompletedData(tokenAddress, network, o, meta, coins, priceOnly) ==
  [op |-> "getTokenData", address |-> tokenAddress, network |-> network,
   result |-> o.result, raised |-> o.raised, calls |-> o.calls, hit |-> o.hit,
   at |-> now, key |-> TokenDataKey(network, tokenAddress),
   pre |-> PreEntry(TokenDataKey(network, tokenAddress)),
   pricePre |-> PreEntry(PricesKey(<< tokenAddress >>)),
   meta |-> meta, coins |-> coins, priceOnly |-> priceOnly]

NoCallYet == [op |-> "none", at |-> 0]

Init ==
  /\ requestCache = << >>
  /\ now = 0
  /\ last = NoCallYet
  /\ prev = NoCallYet
  /\ nops = 0
  /\ inflight = {}

\* time passes between two calls: just less than the cache timeout, or all of
\* it (while the cache is empty, and after the last call, the time that passes
\* changes nothing)
Tick ==
  /\ nops < MaxOps
  /\ requestCache # << >>
  /\ now = last.at
  /\ \E d \in {cacheTimeout - 1, cacheTimeout} : now' = now + d
  /\ UNCHANGED << requestCache, last, prev, nops, inflight >>

\* a call completes: the cache it leaves and its record
Complete(o, rec) ==
  /\ requestCache' = o.cache
  /\ last' = rec
  /\ prev' = last
  /\ nops' = nops + 1
  /\ UNCHANGED << now, inflight >>

\* a getTokenPrices or getTokenPrice call completes with o
CompletePrices(o, op, tokenAddresses, network, key, bulk) ==
  Complete(o, Completed(op, tokenAddresses, network, o, key, bulk))

\* a getSolanaPrice call completes with o
CompleteSolana(o, direct) == Complete(o, CompletedSolana(o, direct))

\* a getTokenData call completes with o
CompleteData(o, tokenAddress, network, meta, coins, priceOnly) ==
  Complete(o, CompletedData(tokenAddress, network, o, meta, coins, priceOnly))

\* a caller calls getTokenPrices with one of the requests
PricesCall(requests, max) ==
  /\ nops < max
  /\ \E req \in requests :
       \E bulk \in BulkChoices(requestCache, now, req[1], req[2]) :
         \E simple \in SimpleChoices(req[1], req[2], bulk) :
           CompletePrices(
             getTokenPrices(requestCache, now, req[1], req[2], bulk, simple),
             "getTokenPrices", req[1], req[2], PricesKey(sort(req[1])), bulk)

\* a caller calls getTokenPrice
PriceCall(max) ==
  /\ nops < max
  /\ \E tokenAddress \in Addrs \cup {""}, network \in InputNetworks :
       \E bulk \in BulkChoices(requestCache, now, << tokenAddress >>, network) :
         \E simple \in SimpleChoices(<< tokenAddress >>, network, bulk) :
           CompletePrices(
             getTokenPrice(requestCache, now, tokenAddress, network, bulk,
                           simple),
             "getTokenPrice", << tokenAddress >>, network,
             PricesKey(<< tokenAddress >>), bulk)

\* a caller calls getSolanaPrice
SolanaCall(max) ==
  /\ nops < max
  /\ \E bulk \in SolanaBulkChoices(requestCache, now) :
       \E simple \in SimpleChoices(<< solMintAddress >>, "solana", bulk) :
         \E direct \in DirectChoices(requestCache, now, bulk, simple) :
           CompleteSolana(
             getSolanaPrice(requestCache, now, bulk, simple, direct), direct)

\* a caller calls getTokenData with one of the requests
DataCall(requests, max) ==
  /\ nops < max
  /\ \E req \in requests :
       \E meta \in MetaChoices(requestCache, now, req[1], req[2]) :
         \E coins \in CoinsChoices(req[1], req[2], meta) :
           \E bulk \in PriceOnlyBulkChoices(requestCache, now, req[1], req[2],
                                            meta, coins) :
             \E simple \in SimpleChoices(<< req[1] >>, req[2], bulk) :
               CompleteData(
                 getTokenData(requestCache, now, req[1], req[2], meta, coins,
                              bulk, simple),
                 req[1], req[2], meta, coins,
                 PriceOnlyPrice(requestCache, now, req[1], req[2], meta, coins,
                                bulk, simple))

\* the kinds of entry the cache holds: the prefixes of its keys
KindsOf(cache) == {k.prefix : k \in DOMAIN cache}

\* a clearCache that leaves the token records
ClearCall_keepsTokenData(max) ==
  /\ nops < max
  /\ requestCache' = [k \in {x \in DOMAIN requestCache :
                               x.prefix = "token_data_"} |-> requestCache[k]]
  /\ last' = [op |-> "clearCache", at |-> now,
              cleared |-> KindsOf(requestCache)]
  /\ prev' = last
  /\ nops' = nops + 1
  /\ UNCHANGED << now, inflight >>

\* a caller calls clearCache; cleared: the kinds of entry the cache held
ClearCall(max) ==
  /\ nops < max
  /\ requestCache' = << >>
  /\ last' = [op |-> "clearCache", at |-> now,
              cleared |-> KindsOf(requestCache)]
  /\ prev' = last
  /\ nops' = nops + 1
  /\ UNCHANGED << now, inflight >>

(***************************************************************************)
(* getTokenPrices, clearCache and the clock: MaxOps calls                  *)
(***************************************************************************)
GetTokenPrices == PricesCall(PriceRequests, MaxOps)

ClearCache == ClearCall(MaxOps)

Next ==
  \/ Tick
  \/ GetTokenPrices
  \/ ClearCache

Spec == Init /\ [][Next]_vars

(***************************************************************************)
(* One address at a time through getTokenPrices and getTokenPrice          *)
(***************************************************************************)
GetSingleTokenPrices == PricesCall(SingleRequests, MaxOps)

GetTokenPrice == PriceCall(MaxOps)

NextSingle ==
  \/ Tick
  \/ GetSingleTokenPrices
  \/ GetTokenPrice
  \/ ClearCache

SpecSingle == Init /\ [][NextSingle]_vars

(***************************************************************************)
(* getSolanaPrice beside getTokenPrices for wrapped SOL                    *)
(***************************************************************************)
GetSolTokenPrices == PricesCall(SolRequests, MaxOps)

GetSolanaPrice == SolanaCall(MaxOps)

NextSolana ==
  \/ Tick
  \/ GetSolTokenPrices
  \/ GetSolanaPrice
  \/ ClearCache

SpecSolana == Init /\ [][NextSolana]_vars

(***************************************************************************)
(* Every public method, every answer at every tier: MaxCalls calls         *)
(***************************************************************************)
AnyGetTokenPrices == PricesCall(WideRequests, MaxCalls)

AnyGetTokenPrice == PriceCall(MaxCalls)

AnyGetSolanaPrice == SolanaCall(MaxCalls)

GetTokenData == DataCall(DataRequests, MaxCalls)

AnyClearCache == ClearCall(MaxCalls)

NextAll ==
  \/ AnyGetTokenPrices
  \/ AnyGetTokenPrice
  \/ AnyGetSolanaPrice
  \/ GetTokenData
  \/ AnyClearCache

SpecAll == Init /\ [][NextAll]_vars

(***************************************************************************)
(* getTokenData, then getTokenData again for a token the registry does not *)
(* know                                                                    *)
(***************************************************************************)
\* wrapped SOL on ethereum, where the registry maps no ID to it, and a blank
\* address
RetryRequests == {<< solMintAddress, "ethereum" >>, << "", "solana" >>}

GetTokenDataAgain == DataCall(RetryRequests, MaxOps)

NextData ==
  \/ GetTokenData
  \/ GetTokenDataAgain

SpecData == Init /\ [][NextData]_vars

(***************************************************************************)
(* The registry: lookups under every spelling of a network name, and       *)
(* getTokenPrices on the networks the registry does not know               *)
(***************************************************************************)
\* the supported networks in three spellings each, and names the registry
\* does not know: another chain, the empty name, a name with a blank at its
\* end, a prefix of a name, and a name every object inherits
RegistryNetworks ==
  {"solana", "Solana", "SOLANA", "sOlAnA", "ethereum", "Ethereum", "ETHEREUM",
   "polygon", "Polygon", "POLYGON", "base", "Base", "BASE",
   "dogechain", "DogeChain", "", "solana ", "sol", "constructor"}

\* a stablecoin and a known token of each network, the same addresses with
\* their letters in lower case, the blank address, and names every object
\* inherits
RegistryAddresses ==
  {USDC_ADDR, solMintAddress,
   "0xA0b86a33E6441b8C4505B8C4505B8C4505B8C4505",
   "0xC02aaA39b223FE8D0A0e5C4F27eAD9083C756Cc2",
   "0x2791Bca1f2de4661ED88A30C99A7a9449Aa84174",
   "0x833589fCD6eDb6E08f4c7C32D4f71b54bdA02913",
   "0x4200000000000000000000000000000000000006",
   "epjfwdd5aufqssqem2qn1xzybapc8g4weggkzwytdt1v",
   "so11111111111111111111111111111111111111112",
   "0xa0b86a33e6441b8c4505b8c4505b8c4505b8c4505",
   "0x833589fcd6edb6e08f4c7c32d4f71b54bda02913",
   "", "constructor", "toString"}

\* the record of a completed round of registry lookups for one network name
\* and one address
CompletedLookup(network, tokenAddress) ==
  [op |-> "registry", network |-> network, address |-> tokenAddress,
   at |-> now,
   stablecoins |-> getStablecoinAddresses(network),
   known |-> DOMAIN getKnownTokenMapping(network),
   isStablecoin |-> isStablecoin(tokenAddress, network),
   id |-> getCoinGeckoId(tokenAddress, network),
   supported |-> isNetworkSupported(network),
   all |-> getSupportedNetworks]

\* a caller asks the registry about a network name and an address
RegistryLookup ==
  /\ nops < MaxCalls
  /\ \E network \in RegistryNetworks, tokenAddress \in RegistryAddresses :
       last' = CompletedLookup(network, tokenAddress)
  /\ prev' = last
  /\ nops' = nops + 1
  /\ UNCHANGED << requestCache, now, inflight >>

\* one address and two addresses on networks the registry does not know
UnsupportedRequests ==
  {<< l, n >> : l \in {<< solMintAddress >>, << USDC_ADDR, solMintAddress >>},
                n \in {"dogechain", "constructor", ""}}

GetTokenPricesElsewhere == PricesCall(UnsupportedRequests, MaxCalls)

NextRegistry ==
  \/ RegistryLookup
  \/ GetTokenPricesElsewhere

SpecRegistry == Init /\ [][NextRegistry]_vars

(***************************************************************************)
(* getTokenPricesBatch                                                     *)
(***************************************************************************)
\* the largest batch size a caller passes
MaxBatchSize == 3

\* the lists passed to getTokenPricesBatch. On ethereum: the empty list, one
\* unknown token, two unknown tokens and a stablecoin, the same unknown token
\* twice, and twice with another token between. On solana: a stablecoin and
\* a known token, in both orders
BatchRequests ==
  {<< l, "ethereum" >> :
     l \in {<< >>, << solMintAddress >>,
            << solMintAddress, USDC_ADDR,
               "0xA0b86a33E6441b8C4505B8C4505B8C4505B8C4505" >>,
            << solMintAddress, solMintAddress >>,
            << solMintAddress, USDC_ADDR, solMintAddress >>}}
    \cup {<< l, "solana" >> :
            l \in {<< USDC_ADDR, solMintAddress >>,
                   << solMintAddress, USDC_ADDR >>}}

\* the record of a completed getTokenPricesBatch: the calls to getTokenPrices
\* it made, when it started and when it returned
CompletedBatch(tokenAddresses, batchSize, network, o) ==
  [op |-> "getTokenPricesBatch", addrs |-> tokenAddresses,
   batchSize |-> batchSize, network |-> network,
   result |-> o.result, raised |-> o.raised, turns |-> o.turns,
   list |-> o.list, started |-> now, at |-> o.t]

\* a caller calls getTokenPricesBatch; the pauses between the batches have
\* passed when it returns
GetTokenPricesBatch ==
  /\ nops < MaxCalls
  /\ \E req \in BatchRequests, batchSize \in 1 .. MaxBatchSize :
       \E o \in getTokenPricesBatch(requestCache, now, req[1], batchSize,
                                    req[2]) :
         /\ requestCache' = o.cache
         /\ now' = o.t
         /\ last' = CompletedBatch(req[1], batchSize, req[2], o)
  /\ prev' = last
  /\ nops' = nops + 1
  /\ UNCHANGED inflight

NextBatch ==
  \/ GetTokenPricesBatch
  \/ AnyGetTokenPrices

SpecBatch == Init /\ [][NextBatch]_vars

(***************************************************************************)
(* clearCache on a service that has stored entries, and the calls made     *)
(* right after it                                                          *)
(***************************************************************************)
\* the cache after getTokenData for a stablecoin has stored its record
WithTokenRecord(cache) ==
  getTokenData(cache, 0, USDC_ADDR, "solana", NoMeta, NoCoins, NoBulk,
               << >>).cache

\* the caches a new service holds after one getSolanaPrice call, whatever
\* the upstream answered, and one getTokenData call for a stablecoin
StoredCaches ==
  UNION {
    UNION {
      {WithTokenRecord(getSolanaPrice(<< >>, 0, bulk, simple, direct).cache) :
         direct \in DirectChoices(<< >>, 0, bulk, simple)} :
      simple \in SimpleChoices(<< solMintAddress >>, "solana", bulk)} :
    bulk \in SolanaBulkChoices(<< >>, 0)}

\* the service after those two calls
InitStored ==
  /\ requestCache \in StoredCaches
  /\ now = 0
  /\ last = NoCallYet
  /\ prev = NoCallYet
  /\ nops = 0
  /\ inflight = {}

\* the getTokenData requests made after the clear: the stablecoin whose
\* record was stored, a token with no ID on its network, a blank address
ClearedRequests ==
  {<< USDC_ADDR, "solana" >>, << solMintAddress, "ethereum" >>,
   << "", "solana" >>}

\* the cache has just been cleared
Cleared == last.op = "clearCache"

\* the cache has just been cleared and a caller calls getTokenPrices
GetTokenPricesCleared == Cleared /\ PricesCall(SolRequests, MaxOps)

\* the cache has just been cleared and a caller calls getTokenPrice
GetTokenPriceCleared == Cleared /\ PriceCall(MaxOps)

\* the cache has just been cleared and a caller calls getSolanaPrice
GetSolanaPriceCleared == Cleared /\ SolanaCall(MaxOps)

\* the cache has just been cleared and a caller calls getTokenData
GetTokenDataCleared == Cleared /\ DataCall(ClearedRequests, MaxOps)

NextClear ==
  \/ ClearCache
  \/ GetTokenPricesCleared
  \/ GetTokenPriceCleared
  \/ GetSolanaPriceCleared
  \/ GetTokenDataCleared

SpecClear == InitStored /\ [][NextClear]_vars

(***************************************************************************)
(* getTokenPrices with lists that hold no address                          *)
(***************************************************************************)
\* the empty list, and lists of one and of two blank addresses
BlankRequests ==
  {<< l, n >> : l \in {<< >>, << "" >>, << "", "" >>}, n \in InputNetworks}

GetTokenPricesBlank == PricesCall(BlankRequests, MaxOps)

NextBlank ==
  \/ Tick
  \/ GetTokenPrices
  \/ GetTokenPricesBlank
  \/ ClearCache

SpecBlank == Init /\ [][NextBlank]_vars

(***************************************************************************)
(* The token-data routes, on the service instance createPriceRoutes makes  *)
(***************************************************************************)
\* address and network query of GET /data/:address (the query may be absent
\* or empty); an express parameter is never empty
AddressRequests ==
  {<< solMintAddress, undefined >>, << solMintAddress, "ethereum" >>,
   << USDC_ADDR, undefined >>, << USDC_ADDR, "" >>}

\* network and address of GET /data/:network/:address
NetworkRequests ==
  {<< "solana", solMintAddress >>, << "ethereum", solMintAddress >>,
   << "solana", USDT_ADDR >>, << "SOLANA", USDC_ADDR >>}

\* the record of an answered request: the getTokenData call it made and the
\* response it sent
CompletedRoute(route, call, response) ==
  [op |-> route, call |-> call, response |-> response, at |-> now]

\* a request completes
CompleteRoute(o, route, address, network, meta, coins, priceOnly, response) ==
  Complete(o, CompletedRoute(route,
                CompletedData(address, network, o, meta, coins, priceOnly),
                response))

\* the getTokenData call of a handler, with what the handler answers
RouteCall(route, address, network, query) ==
  \E meta \in MetaChoices(requestCache, now, address, network) :
    \E coins \in CoinsChoices(address, network, meta) :
      \E bulk \in PriceOnlyBulkChoices(requestCache, now, address, network,
                                       meta, coins) :
        \E simple \in SimpleChoices(<< address >>, network, bulk) :
          CompleteRoute(
            getTokenData(requestCache, now, address, network, meta, coins,
                         bulk, simple),
            route, address, network, meta, coins,
            PriceOnlyPrice(requestCache, now, address, network, meta, coins,
                           bulk, simple),
            IF route = DataByAddress
            THEN dataByAddress(
                   getTokenData(requestCache, now, address, network, meta,
                                coins, bulk, simple),
                   address, query, now)
            ELSE dataByNetwork(
                   getTokenData(requestCache, now, address, network, meta,
                                coins, bulk, simple),
                   network, address, now))

\* a client requests GET /data/:address
GetDataByAddress ==
  /\ nops < MaxCalls
  /\ \E req \in AddressRequests :
       RouteCall(DataByAddress, req[1], QueryNetwork(req[2]), req[2])

\* a client requests GET /data/:network/:address
GetDataByNetwork ==
  /\ nops < MaxCalls
  /\ \E req \in NetworkRequests :
       RouteCall(DataByNetwork, req[2], req[1], req[1])

NextRoutes ==
  \/ GetDataByAddress
  \/ GetDataByNetwork

SpecRoutes == Init /\ [][NextRoutes]_vars

(***************************************************************************)
(* Overlapping getTokenPrices calls. A call runs without interruption up   *)
(* to its first await (the lookup of line 36 and the on-chain request of   *)
(* line 86) and from its last await to its return (the store of lines      *)
(* 141-144); between the two it reads and writes nothing of the service.   *)
(***************************************************************************)
\* lists with an address that is no stablecoin: the calls that await
OverlapRequests ==
  {<< << solMintAddress >>, "solana" >>,
   << << USDC_ADDR, solMintAddress >>, "solana" >>}

\* a call that has looked up its key, missed, and sent its first request; o
\* is what the method comes to with the answers the upstream will give
Waiting(tokenAddresses, network, o, bulk) ==
  [id |-> nops, addrs |-> tokenAddresses, network |-> network,
   key |-> PricesKey(sort(tokenAddresses)), result |-> o.result,
   calls |-> o.calls, list |-> o.list, began |-> now,
   carried |-> Carried(bulk)]

\* a caller calls getTokenPrices; the call misses the cache (removing the
\* entry if it has expired) and waits for the upstream
BeginGetTokenPrices ==
  /\ nops < MaxOps
  /\ \E req \in OverlapRequests :
       /\ ~Truthy(getCachedData(requestCache, PricesKey(sort(req[1])),
                                now).data)
       /\ \E bulk \in BulkChoices(requestCache, now, req[1], req[2]) :
            \E simple \in SimpleChoices(req[1], req[2], bulk) :
              inflight' = inflight \cup
                {Waiting(req[1], req[2],
                         getTokenPrices(requestCache, now, req[1], req[2],
                                        bulk, simple),
                         bulk)}
       /\ requestCache' = getCachedData(requestCache,
                                        PricesKey(sort(req[1])), now).cache
  /\ nops' = nops + 1
  /\ UNCHANGED << now, last, prev >>

\* the record of a call that waited: also its number, when it began, and the
\* numbers of the calls still waiting when it returned
CompletedWaiting(r, peers) ==
  [op |-> "getTokenPrices", addrs |-> r.addrs, network |-> r.network,
   result |-> r.result, raised |-> FALSE, calls |-> r.calls, hit |-> FALSE,
   list |-> r.list, at |-> now, key |-> r.key, carried |-> r.carried,
   id |-> r.id, began |-> r.began, peers |-> {p.id : p \in peers}]

\* the last answer of a waiting call arrives: it stores its map, if it has
\* any price, and returns
FinishGetTokenPrices ==
  /\ \E r \in inflight :
       /\ requestCache' = StoreIfAny(requestCache, r.key, r.result, now)
       /\ last' = CompletedWaiting(r, inflight \ {r})
       /\ inflight' = inflight \ {r}
  /\ prev' = last
  /\ UNCHANGED << now, nops >>

NextOverlap ==
  \/ BeginGetTokenPrices
  \/ FinishGetTokenPrices

SpecOverlap == Init /\ [][NextOverlap]_vars

(***************************************************************************)
(* The cache by itself: the lookups and stores the methods make            *)
(***************************************************************************)
\* a key of each kind
CacheKeys ==
  {PricesKey(<< solMintAddress >>), SolanaPriceKey,
   TokenDataKey("solana", solMintAddress)}

\* values the methods store
CacheValues ==
  {MapValue([a \in {solMintAddress} |-> 3]), NumValue(2)}

\* the record of a lookup or a store: also the cache as it was before
CompletedCache(op, key, data, result) ==
  [op |-> op, key |-> key, data |-> data, result |-> result,
   before |-> requestCache, at |-> now]

\* a method calls getCachedData(key)
CacheGet ==
  /\ nops < MaxOps
  /\ \E key \in CacheKeys :
       /\ requestCache' = getCachedData(requestCache, key, now).cache
       /\ last' = CompletedCache("getCachedData", key, null,
                                 getCachedData(requestCache, key, now).data)
  /\ prev' = last
  /\ nops' = nops + 1
  /\ UNCHANGED << now, inflight >>

\* a method calls setCachedData(key, data)
CacheSet ==
  /\ nops < MaxOps
  /\ \E key \in CacheKeys, data \in CacheValues :
       /\ requestCache' = setCachedData(requestCache, key, data, now)
       /\ last' = CompletedCache("setCachedData", key, data, null)
  /\ prev' = last
  /\ nops' = nops + 1
  /\ UNCHANGED << now, inflight >>

NextCache ==
  \/ Tick
  \/ CacheGet
  \/ CacheSet

SpecCache == Init /\ [][NextCache]_vars

(***************************************************************************)
(* getTokenPrices with an address that occurs more than once               *)
(***************************************************************************)
\* wrapped SOL twice: on solana, where it has an ID, alone, around a
\* stablecoin and around another token with an ID, and on ethereum, where it
\* has none
DuplicateRequests ==
  {<< << solMintAddress, solMintAddress >>, "solana" >>,
   << << solMintAddress, USDC_ADDR, solMintAddress >>, "solana" >>,
   << << solMintAddress, RAY_ADDR, solMintAddress >>, "solana" >>,
   << << solMintAddress, solMintAddress >>, "ethereum" >>}

GetTokenPricesDuplicates == PricesCall(DuplicateRequests, MaxCalls)

NextDuplicates ==
  \/ GetTokenPricesDuplicates
  \/ AnyClearCache

SpecDuplicates == Init /\ [][NextDuplicates]_vars

(***************************************************************************)
(* One getTokenPricesBatch call on a new service, step by step: the loop  *)
(* that builds the batches, one turn at a time, then the loop over the     *)
(* batches, one getTokenPrices call at a time                              *)
(***************************************************************************)
\* the turns of the building loop the model follows
MaxBuild == 3

\* the batch sizes: below one, and the ones of BatchRequests
StepBatchSizes == {0 - 1, 0} \cup (1 .. MaxBatchSize)

\* lists of no, one, two and three addresses, on ethereum
StepRequests ==
  {<< l, "ethereum" >> :
     l \in {<< >>, << solMintAddress >>, << solMintAddress, USDC_ADDR >>,
            << solMintAddress, USDC_ADDR, solMintAddress >>}}

\* a getTokenPricesBatch call in progress: where it is (pc), the index i and
\* the batches of the building loop, the number k of the batch it is at, and
\* what the loop over the batches has so far (st, as in BatchLoop)
Running(tokenAddresses, batchSize, network) ==
  [op |-> "getTokenPricesBatch", addrs |-> tokenAddresses,
   batchSize |-> batchSize, network |-> network, pc |-> "build", i |-> 0,
   batches |-> << >>, k |-> 1, began |-> now,
   st |-> [cache |-> requestCache, t |-> now, results |-> EmptyMap,
           turns |-> << >>, stopped |-> FALSE]]

\* a caller calls getTokenPricesBatch with a list no longer than the batch
\* size: the call is handed to getTokenPrices
DelegateBatch ==
  /\ nops = 0
  /\ \E req \in StepRequests, batchSize \in StepBatchSizes :
       /\ Len(req[1]) <= batchSize
       /\ \E bulk \in BulkChoices(requestCache, now, req[1], req[2]) :
            \E simple \in SimpleChoices(req[1], req[2], bulk) :
              /\ requestCache'
                   = getTokenPrices(requestCache, now, req[1], req[2], bulk,
                                    simple).cache
              /\ last' = CompletedBatch(
                            req[1], batchSize, req[2],
                            DelegateWhole(
                              req[1],
                              getTokenPrices(requestCache, now, req[1],
                                             req[2], bulk, simple),
                              now))
  /\ prev' = last
  /\ nops' = nops + 1
  /\ UNCHANGED << now, inflight >>

\* a caller calls getTokenPricesBatch with a list longer than the batch size
BeginBatch ==
  /\ nops = 0
  /\ \E req \in StepRequests, batchSize \in StepBatchSizes :
       /\ Len(req[1]) > batchSize
       /\ inflight' = {Running(req[1], batchSize, req[2])}
  /\ nops' = nops + 1
  /\ UNCHANGED << requestCache, now, last, prev >>

\* one turn of for (let i = 0; i < tokenAddresses.length; i += batchSize),
\* or its end
BuildStep ==
  \E r \in inflight :
    /\ r.op = "getTokenPricesBatch" /\ r.pc = "build"
    /\ IF r.i < Len(r.addrs)
       THEN /\ Len(r.batches) < MaxBuild
            /\ inflight' =
                 {[r EXCEPT
                     !.batches = Append(r.batches,
                                        sliceAny(r.addrs, r.i,
                                                 r.i + r.batchSize)),
                     !.i = NextIndex(r.i, r.batchSize)]}
       ELSE inflight' = {[r EXCEPT !.pc = "loop"]}
    /\ UNCHANGED << requestCache, now, last, prev, nops >>

\* a turn of the loop over the batches is done: turned is what it left
ChunkDone(r, turned) ==
  /\ inflight' = {[r EXCEPT !.k = r.k + 1, !.st = turned]}
  /\ requestCache' = turned.cache
  /\ now' = turned.t

\* one turn of for (const batch of batches): the getTokenPrices call for
\* batch k and the pause after it
ChunkStep ==
  \E r \in inflight :
    /\ r.op = "getTokenPricesBatch" /\ r.pc = "loop"
    /\ r.k <= Len(r.batches)
    /\ \E bulk \in BulkChoices(requestCache, now, r.batches[r.k], r.network) :
         \E simple \in SimpleChoices(r.batches[r.k], r.network, bulk) :
           ChunkDone(r,
                     BatchTurn([r.st EXCEPT !.cache = requestCache, !.t = now],
                               r.batches[r.k],
                               getTokenPrices(requestCache, now,
                                              r.batches[r.k], r.network,
                                              bulk, simple),
                               Len(r.batches)))
    /\ UNCHANGED << last, prev, nops >>

\* return results
ReturnStep ==
  \E r \in inflight :
    /\ r.op = "getTokenPricesBatch" /\ r.pc = "loop"
    /\ r.k > Len(r.batches)
    /\ last' = [CompletedBatch(r.addrs, r.batchSize, r.network,
                               ReturnResults(r.addrs, r.st))
                  EXCEPT !.started = r.began, !.at = now]
    /\ prev' = last
    /\ inflight' = {}
    /\ UNCHANGED << requestCache, now, nops >>

NextBatchSteps ==
  \/ DelegateBatch
  \/ BeginBatch
  \/ BuildStep
  \/ ChunkStep
  \/ ReturnStep

\* a turn of the loop over the batches is due: ChunkStep is enabled
ChunkPending ==
  \E r \in inflight :
    r.op = "getTokenPricesBatch" /\ r.pc = "loop" /\ r.k <= Len(r.batches)

\* the turn that was due has been made
ChunkMoved == ChunkPending /\ inflight' # inflight

\* a call in progress goes on, each getTokenPrices call and each pause
\* coming to its end: weak fairness of the three steps, the one of ChunkStep
\* written out with ChunkPending as its enabling condition
SpecBatchSteps ==
  /\ Init /\ [][NextBatchSteps]_vars
  /\ WF_vars(BuildStep) /\ WF_vars(ReturnStep)
  /\ ([]<>(~ChunkPending) \/ []<><<ChunkMoved>>_vars)


(***************************************************************************)
(* The caller's list after getTokenPrices and getTokenPricesBatch          *)
(***************************************************************************)
\* on solana: the empty list, and a stablecoin and wrapped SOL in both orders
ListRequests ==
  {<< l, "solana" >> :
     l \in {<< >>, << USDC_ADDR, solMintAddress >>,
            << solMintAddress, USDC_ADDR >>}}

GetTokenPricesList == PricesCall(ListRequests, MaxOps)

\* a caller calls getTokenPricesBatch with one of the lists
GetTokenPricesBatchList ==
  /\ nops < MaxOps
  /\ \E req \in ListRequests, batchSize \in 1 .. MaxBatchSize :
       \E o \in getTokenPricesBatch(requestCache, now, req[1], batchSize,
                                    req[2]) :
         /\ requestCache' = o.cache
         /\ now' = o.t
         /\ last' = CompletedBatch(req[1], batchSize, req[2], o)
  /\ prev' = last
  /\ nops' = nops + 1
  /\ UNCHANGED inflight

NextLists ==
  \/ GetTokenPricesList
  \/ GetTokenPricesBatchList

SpecLists == Init /\ [][NextLists]_vars

(***************************************************************************)
(* getTokenData for the stablecoins of every network                       *)
(***************************************************************************)
\* the names of the supported networks, as the registry spells them and in
\* other spellings
SupportedSpellings ==
  {"solana", "Solana", "SOLANA", "ethereum", "ETHEREUM", "polygon", "Polygon",
   "base", "BASE"}

\* every stablecoin of a network, under every spelling of its name
StablecoinRequests ==
  UNION {{<< a, n >> : a \in Elems(getStablecoinAddresses(n))} :
           n \in SupportedSpellings}

GetStablecoinData == DataCall(StablecoinRequests, MaxOps)

NextStablecoins ==
  \/ Tick
  \/ GetStablecoinData
  \/ ClearCache

SpecStablecoins == Init /\ [][NextStablecoins]_vars
(***************************************************************************)
(* Properties of getTokenPrices (resolvePrices)                            *)
(***************************************************************************)
IsPricesCall(r) == r.op = "getTokenPrices"

\* the two lists hold the same addresses, each as often, in any order
SameAddresses(l1, l2) ==
  /\ Len(l1) = Len(l2)
  /\ \A a \in Elems(l1) \cup Elems(l2) :
       Cardinality({i \in DOMAIN l1 : l1[i] = a})
         = Cardinality({i \in DOMAIN l2 : l2[i] = a})

\* the non-blank addresses of a call that are no stablecoins of its network
NonStableOf(r) ==
  {a \in Elems(r.addrs) : a # "" /\ ~isStablecoin(a, r.network)}

StableOf(r) == {a \in Elems(r.addrs) : isStablecoin(a, r.network)}

\* when the map a call returned was put into the cache
StoredAt(r) == IF r.hit THEN r.pre.timestamp ELSE r.at

\* C1: a price map that getTokenPrices cached for an address list on one
\* network is not returned to the next getTokenPrices call for the same list
\* on a different network: that call misses the cache.
C1_CachedMapStaysOnItsNetwork ==
  ( /\ IsPricesCall(prev) /\ IsPricesCall(last)
    /\ ~prev.hit /\ prev.result # EmptyMap
    /\ last.addrs = prev.addrs
    /\ toLowerCase(last.network) # toLowerCase(prev.network) )
  => ~last.hit

\* C2: getTokenPrices called with a non-empty list of stablecoins of the given
\* network returns exactly 1.0 for each address and makes no upstream call,
\* whatever calls came before.
C2_StablecoinsAreOneDollar ==
  ( /\ IsPricesCall(last) /\ Len(last.addrs) > 0
    /\ \A i \in DOMAIN last.addrs : isStablecoin(last.addrs[i], last.network) )
  => ( /\ last.calls = << >>
       /\ last.result = [a \in Elems(last.addrs) |-> StablecoinPrice] )

\* C3 as stated: of two getTokenPrices calls in immediate succession with the
\* same addresses in any order and the same network, less than cacheTimeout
\* apart, only the first makes upstream calls: when the first made any, the
\* second is a cache hit that makes none and returns the map the first
\* returned.
C3_SecondCallIsAlwaysAHit ==
  ( /\ IsPricesCall(prev) /\ IsPricesCall(last)
    /\ SameAddresses(last.addrs, prev.addrs)
    /\ last.network = prev.network
    /\ last.at - prev.at < cacheTimeout
    /\ prev.calls # << >> )
  => (last.hit /\ last.calls = << >> /\ last.result = prev.result)

\* C3 amended: of two getTokenPrices calls in immediate succession with the
\* same addresses in any order and the same network, the first of which
\* returned a non-empty map, the second made less than cacheTimeout after
\* that map was stored, the second is a cache hit that makes no upstream call
\* and returns the same map.
C3_SecondCallHitsStoredMap ==
  ( /\ IsPricesCall(prev) /\ IsPricesCall(last)
    /\ SameAddresses(last.addrs, prev.addrs)
    /\ last.network = prev.network
    /\ prev.result # EmptyMap
    /\ last.at - StoredAt(prev) < cacheTimeout )
  => (last.hit /\ last.calls = << >> /\ last.result = prev.result)

\* a first call that went upstream and resolved a price, then the same
\* addresses in the other order just before the entry expires: a hit
C3_Witness ==
  /\ IsPricesCall(prev) /\ IsPricesCall(last)
  /\ prev.calls # << >> /\ prev.result # EmptyMap
  /\ SameAddresses(last.addrs, prev.addrs) /\ last.addrs # prev.addrs
  /\ last.network = prev.network
  /\ last.at - prev.at = cacheTimeout - 1
  /\ last.hit /\ last.calls = << >> /\ last.result = prev.result

\* C4: a getTokenPrices call whose list has a non-stablecoin address and whose
\* key has an entry stored cacheTimeout or more ago does not use the entry:
\* it misses the cache and issues the on-chain lookup again.
C4_StaleEntryIsRefetched ==
  ( /\ IsPricesCall(last)
    /\ last.pre.found /\ last.at - last.pre.timestamp >= cacheTimeout
    /\ NonStableOf(last) # {} )
  => ( /\ ~last.hit
       /\ last.calls # << >>
       /\ last.calls[1].api = "onchain_multi"
       /\ Elems(last.calls[1].addresses) = NonStableOf(last) )

\* a call cached a map with a non-stablecoin price; exactly cacheTimeout
\* later the same call goes upstream again
C4_Witness ==
  /\ IsPricesCall(prev) /\ IsPricesCall(last)
  /\ ~prev.hit /\ prev.result # EmptyMap /\ NonStableOf(prev) # {}
  /\ last.addrs = prev.addrs /\ last.network = prev.network
  /\ last.at - prev.at = cacheTimeout
  /\ last.pre.found /\ last.pre.timestamp = prev.at
  /\ ~last.hit /\ last.calls # << >>

\* a cache miss on a list that mixes stablecoins and other addresses
MixedMiss(r) ==
  /\ IsPricesCall(r) /\ ~r.hit
  /\ StableOf(r) # {} /\ NonStableOf(r) # {}

\* the on-chain request names the non-stablecoin addresses only, and every
\* stablecoin is in the returned map at 1.0
MixedListTiers(r) ==
  /\ r.calls # << >>
  /\ r.calls[1].api = "onchain_multi"
  /\ Elems(r.calls[1].addresses) = NonStableOf(r)
  /\ \A a \in StableOf(r) :
       a \in DOMAIN r.result /\ r.result[a] = StablecoinPrice

\* C7 as stated: on a cache miss for a list mixing stablecoins and other
\* addresses, the on-chain request holds only the non-stablecoin addresses,
\* and the returned map holds 1.0 for every stablecoin and the on-chain price
\* of every address the on-chain answer carried a price for.
C7_MapHoldsEveryOnchainPrice ==
  MixedMiss(last)
  => ( /\ MixedListTiers(last)
       /\ \A a \in NonStableOf(last) \cap DOMAIN last.carried :
            /\ a \in DOMAIN last.result
            /\ last.result[a] = parseFloat(last.carried[a]) )

\* what does hold of the on-chain prices: the map holds the on-chain price
\* of every address the on-chain answer carried a non-zero price for (a price
\* of zero is treated as no price: the ID-mapped lookup may replace it)
NonZeroOnchainPricesAreKept ==
  MixedMiss(last)
  => ( /\ MixedListTiers(last)
       /\ \A a \in NonStableOf(last) \cap DOMAIN last.carried :
            TruthyNumber(parseFloat(last.carried[a]))
            => ( /\ a \in DOMAIN last.result
                 /\ last.result[a] = parseFloat(last.carried[a]) ) )

(***************************************************************************)
(* Properties of the failure handling of the four public methods           *)
(***************************************************************************)
IsPriceCall(r) == r.op = "getTokenPrice"

IsSolanaCall(r) == r.op = "getSolanaPrice"

IsDataCall(r) == r.op = "getTokenData"

\* the call went upstream and every upstream call it made failed
AllFailed(calls) ==
  calls # << >> /\ \A i \in DOMAIN calls : calls[i].failed

\* the IDs the registry maps to the non-stablecoin addresses of a call
MappedIds(r) ==
  {getCoinGeckoId(a, r.network) : a \in NonStableOf(r)} \ {undefined}

\* the entry was live when the call started
LiveAt(pre, t) == pre.found /\ t - pre.timestamp < cacheTimeout

\* getTokenPrices and getTokenPrice: when the on-chain request fails, every
\* ID-mapped address is still looked up by ID, one request each, whatever
\* the requests before it met; when every request fails the result holds
\* the stablecoins alone
PriceTiersContinue(r) ==
  ( /\ r.calls # << >> /\ r.calls[1].failed )
  => ( /\ r.calls[1].api = "onchain_multi"
       /\ Len(r.calls) = 1 + Cardinality(MappedIds(r))
       /\ {r.calls[i].id : i \in 2 .. Len(r.calls)} = MappedIds(r)
       /\ \A i \in 2 .. Len(r.calls) : r.calls[i].api = "simple_price" )

\* getSolanaPrice: when every request of getTokenPrices fails the direct
\* lookup is made, and when that fails too the result is 0
SolanaTiersContinue(r) ==
  AllFailed(r.innerCalls)
  => ( /\ Len(r.calls) = Len(r.innerCalls) + 1
       /\ r.calls[Len(r.calls)].api = "simple_price"
       /\ r.calls[Len(r.calls)].id = "solana"
       /\ (r.calls[Len(r.calls)].failed => r.result = 0) )

\* getTokenData: when the on-chain token request fails the coins request is
\* made for a mapped ID; when that fails too, or no ID is mapped, the
\* price-only lookup goes upstream (unless the price map is cached); when
\* every request fails the result is null
DataTiersContinue(r) ==
  ( /\ r.address # "" /\ ~r.hit /\ ~isStablecoin(r.address, r.network) )
  => LET id == getCoinGeckoId(r.address, r.network)
         k == IF id = undefined THEN 1 ELSE 2
     IN  /\ r.calls # << >>
         /\ r.calls[1].api = "onchain_token"
         /\ (r.calls[1].failed /\ id # undefined)
              => (Len(r.calls) >= k /\ r.calls[k].api = "coins"
                                   /\ r.calls[k].id = id)
         /\ ( /\ \A i \in 1 .. k : i <= Len(r.calls) /\ r.calls[i].failed
              /\ ~LiveAt(r.pricePre, r.at) )
              => ( /\ Len(r.calls) > k
                   /\ r.calls[k + 1].api = "onchain_multi"
                   /\ r.calls[k + 1].addresses = << r.address >>
                   /\ (AllFailed(r.calls) => r.result = null) )

IsSingleLookup(r) ==
  /\ (IsPricesCall(r) \/ IsPriceCall(r))
  /\ Len(r.addrs) = 1
  /\ NonStableOf(r) = Elems(r.addrs)

PositiveSolPrice(prices) ==
  IF solMintAddress \in DOMAIN prices /\ prices[solMintAddress] > 0
  THEN prices[solMintAddress]
  ELSE 0

\* the positive price the direct lookup answered, 0 when it answered none
PositiveDirectPrice(direct) ==
  IF direct.kind = "ok" /\ direct.usd > 0 THEN direct.usd ELSE 0

\* a getSolanaPrice call that found no live entry of its own
SolanaMiss(r) ==
  /\ ~r.hit
  /\ r.innerCalls # << >>
       => ( /\ r.innerCalls[1].api = "onchain_multi"
            /\ r.innerCalls[1].network = "solana"
            /\ r.innerCalls[1].addresses = << solMintAddress >> )
  /\ IF PositiveSolPrice(r.inner) > 0
     THEN /\ r.calls = r.innerCalls
          /\ r.result = PositiveSolPrice(r.inner)
     ELSE /\ Len(r.calls) = Len(r.innerCalls) + 1
          /\ SubSeq(r.calls, 1, Len(r.innerCalls)) = r.innerCalls
          /\ r.calls[Len(r.calls)].api = "simple_price"
          /\ r.calls[Len(r.calls)].id = "solana"
          /\ r.result = PositiveDirectPrice(r.direct)
  /\ IF r.result > 0
     THEN /\ SolanaPriceKey \in DOMAIN requestCache
          /\ requestCache[SolanaPriceKey]
               = [data |-> NumValue(r.result), timestamp |-> r.at]
     ELSE SolanaPriceKey \notin DOMAIN requestCache

\* C8: getSolanaPrice resolves wrapped SOL through getTokenPrices on solana;
\* exactly when that gives no positive price it makes one direct lookup by
\* ID; it returns the first positive price and 0 when both fail; only a
\* positive price is stored under its own key, and while that entry is live
\* the call returns it and makes no upstream call.
C8_SolanaPriceTiers ==
  /\ SolanaPriceKey \in DOMAIN requestCache
       => ( /\ requestCache[SolanaPriceKey].data.kind = "num"
            /\ requestCache[SolanaPriceKey].data.num > 0 )
  /\ IsSolanaCall(last)
       => IF LiveAt(last.pre, last.at)
          THEN /\ last.hit /\ last.calls = << >>
               /\ last.result = last.pre.data.num
          ELSE SolanaMiss(last)

\* getTokenPrices gives no price (both its requests fail), the direct lookup
\* answers 2, which is returned and stored; the next call, just before the
\* entry expires, returns 2 from the cache
C8_Witness ==
  /\ IsSolanaCall(prev) /\ IsSolanaCall(last)
  /\ ~prev.hit /\ Len(prev.innerCalls) = 2 /\ AllFailed(prev.innerCalls)
  /\ Len(prev.calls) = 3 /\ ~prev.calls[3].failed
  /\ prev.result = PositiveDirectPrice(prev.direct) /\ prev.result > 0
  /\ last.at = prev.at + cacheTimeout - 1
  /\ last.hit /\ last.calls = << >> /\ last.result = prev.result

(***************************************************************************)
(* Properties of getTokenData (resolveTokenData)                           *)
(***************************************************************************)
\* the registry's metadata entries for an address
MetadataFor(address, network) ==
  LET stablecoinMetadata == getStablecoinMetadata(network)
  IN  {stablecoinMetadata[i] : i \in {j \in DOMAIN stablecoinMetadata :
                                         stablecoinMetadata[j].address = address}}

\* the stablecoin record: the fields of the one metadata entry, or the
\* generic triple when there is none
StablecoinRecord(address, network) ==
  LET entries == MetadataFor(address, network)
      generic == [symbol |-> "STABLECOIN", name |-> "Stablecoin",
                  decimals |-> DefaultDecimals]
      m == IF entries = {} THEN generic ELSE CHOOSE e \in entries : TRUE
  IN  [address |-> address, network |-> toLowerCase(network),
       price_usd |-> StablecoinPrice, symbol |-> m.symbol, name |-> m.name,
       decimals |-> m.decimals]

\* C9: for a stablecoin of the given network, getTokenData on a cache miss
\* makes no upstream call and returns, and caches, a record with price_usd
\* 1.0 and the symbol, name and decimals of the registry's metadata entry
\* for the address (STABLECOIN, Stablecoin, 6 when no entry matches).
C9_StablecoinRecordFromRegistry ==
  ( /\ IsDataCall(last) /\ ~last.hit
    /\ isStablecoin(last.address, last.network) )
  => ( /\ last.calls = << >>
       /\ Cardinality(MetadataFor(last.address, last.network)) <= 1
       /\ last.result
            = RecValue(StablecoinRecord(last.address, last.network))
       /\ last.key \in DOMAIN requestCache
       /\ requestCache[last.key]
            = [data |-> last.result, timestamp |-> last.at] )

\* getTokenData for USDT of solana: no upstream call, the record of Tether
\* USD at 1.0, cached
C9_Witness ==
  /\ IsDataCall(last) /\ ~last.hit
  /\ last.address = USDT_ADDR /\ last.network = "solana"
  /\ last.calls = << >>
  /\ last.result.kind = "rec"
  /\ last.result.rec.symbol = "USDT" /\ last.result.rec.name = "Tether USD"
  /\ last.result.rec.price_usd = StablecoinPrice
  /\ last.result.rec.decimals = DefaultDecimals
  /\ requestCache[last.key].data = last.result

\* the on-chain token request answered with a success status and attributes
OnchainRecordCase(r) ==
  /\ IsDataCall(r) /\ ~r.hit /\ r.address # ""
  /\ ~isStablecoin(r.address, r.network)
  /\ r.meta.kind = "ok" /\ r.meta.attrs.present

\* C10: when the on-chain token request answers with a success status and an
\* attributes payload, getTokenData caches and returns the record built from
\* it and makes neither the coins request nor the price-only lookup, whether
\* or not the registry maps an ID to the address.
C10_OnchainRecordShortCircuits ==
  OnchainRecordCase(last)
  => ( /\ Len(last.calls) = 1
       /\ last.calls[1].api = "onchain_token"
       /\ last.calls[1].network = last.network
       /\ last.calls[1].addresses = << last.address >>
       /\ last.result.kind = "rec"
       /\ last.result.rec.address = last.address
       /\ last.result.rec.network = toLowerCase(last.network)
       /\ last.result.rec.name = last.meta.attrs.name
       /\ last.result.rec.symbol = last.meta.attrs.symbol
       /\ IF last.meta.attrs.price_usd = "none"
          THEN "price_usd" \notin DOMAIN last.result.rec
          ELSE last.result.rec.price_usd = parseFloat(last.meta.attrs.price_usd)
       /\ "coingecko_id" \notin DOMAIN last.result.rec
       /\ last.key \in DOMAIN requestCache
       /\ requestCache[last.key]
            = [data |-> last.result, timestamp |-> last.at] )

\* wrapped SOL on solana, an ID-mapped token: the on-chain answer has
\* attributes but no price; the record is returned after that one request
C10_Witness ==
  /\ OnchainRecordCase(last)
  /\ getCoinGeckoId(last.address, last.network) # undefined
  /\ last.meta.attrs.price_usd = "none"
  /\ Len(last.calls) = 1
  /\ last.result.kind = "rec"
  /\ last.result.rec.name = last.meta.attrs.name
  /\ requestCache[last.key].data = last.result

(***************************************************************************)
(* The price-only tier of getTokenData                                     *)
(***************************************************************************)
\* a getTokenData call that missed its cache entry, for an address that is
\* no stablecoin of the network
DataMiss(r) ==
  /\ IsDataCall(r) /\ r.address # "" /\ ~r.hit
  /\ ~isStablecoin(r.address, r.network)

\* the record with address, network and price alone
PriceOnlyRecord(r) ==
  RecValue([address |-> r.address, network |-> toLowerCase(r.network),
            price_usd |-> r.priceOnly.price])

\* C11: for an address that is no stablecoin and has no registry ID, when the
\* on-chain token request gives no attributes (it fails, or answers without
\* them) and getTokenPrice then returns a positive price p, getTokenData
\* returns a record whose only fields are address, network and price_usd = p,
\* and stores that record under its cache key.
C11_PriceOnlyRecord ==
  ( /\ DataMiss(last)
    /\ getCoinGeckoId(last.address, last.network) = undefined
    /\ ~HasAttributes(last.meta)
    /\ last.priceOnly.called /\ last.priceOnly.price > 0 )
  => ( /\ last.result = PriceOnlyRecord(last)
       /\ DOMAIN last.result.rec = {"address", "network", "price_usd"}
       /\ last.key \in DOMAIN requestCache
       /\ requestCache[last.key].data = last.result
       /\ requestCache[last.key].timestamp = last.at )

\* getTokenData for wrapped SOL on ethereum, where the registry maps no ID to
\* it: the on-chain token request fails, the on-chain price request prices
\* the address at 3, and the record holds address, network and that price
C11_Witness ==
  /\ DataMiss(last)
  /\ last.address = solMintAddress /\ last.network = "ethereum"
  /\ last.meta.kind \in FailureKinds
  /\ Len(last.calls) = 2 /\ last.calls[2].api = "onchain_multi"
  /\ last.priceOnly.called /\ last.priceOnly.price = 3
  /\ last.result = PriceOnlyRecord(last)
  /\ requestCache[last.key].data = last.result

(***************************************************************************)
(* getTokenData when nothing can be found                                  *)
(***************************************************************************)
\* the on-chain token request gave no attributes, the coins request (made
\* when an ID is mapped) gave no record, and getTokenPrice returned 0
EveryTierFailed(r) ==
  /\ DataMiss(r)
  /\ ~HasAttributes(r.meta)
  /\ r.coins.kind # "ok"
  /\ r.priceOnly.called /\ r.priceOnly.price = 0

\* the step is a getTokenData call with a blank address
BlankDataCall ==
  /\ nops' = nops + 1
  /\ last'.op = "getTokenData" /\ last'.address = ""

\* C12: when the on-chain token request, the coins request (when an ID is
\* mapped) and the price-only lookup all fail, getTokenData returns null, does
\* not raise and leaves no entry under its cache key, and the same call made
\* again goes upstream again; with a blank address it returns null and
\* neither touches the cache nor goes upstream.
C12_NothingFoundIsNullAndUncached ==
  /\ [](EveryTierFailed(last)
          => ( /\ last.result = null /\ ~last.raised
               /\ last.key \notin DOMAIN requestCache ))
  /\ []( ( /\ EveryTierFailed(prev) /\ IsDataCall(last)
            /\ last.address = prev.address /\ last.network = prev.network )
          => ( /\ ~last.hit /\ last.calls # << >>
               /\ last.calls[1].api = "onchain_token" ))
  /\ [][BlankDataCall
          => ( /\ last'.result = null /\ ~last'.raised
               /\ last'.calls = << >> /\ ~last'.hit
               /\ requestCache' = requestCache )]_vars

\* getTokenData for wrapped SOL on ethereum: the on-chain token request and
\* the on-chain price request fail and it returns null; the same call made
\* again makes both requests again
C12_Witness ==
  /\ EveryTierFailed(prev) /\ IsDataCall(last)
  /\ prev.address = solMintAddress /\ prev.network = "ethereum"
  /\ last.address = prev.address /\ last.network = prev.network
  /\ AllFailed(prev.calls) /\ prev.result = null
  /\ ~last.hit /\ Len(last.calls) = 2
  /\ last.calls[1].api = "onchain_token"
  /\ last.calls[2].api = "onchain_multi"

(***************************************************************************)
(* Properties of the registry                                              *)
(***************************************************************************)
IsLookup(r) == r.op = "registry"

\* the supported networks, each with the spellings of its name
Spellings ==
  [solana |-> {"solana", "Solana", "SOLANA", "sOlAnA"},
   ethereum |-> {"ethereum", "Ethereum", "ETHEREUM"},
   polygon |-> {"polygon", "Polygon", "POLYGON"},
   base |-> {"base", "Base", "BASE"}]

\* the name is no spelling of a supported network
Unsupported(network) ==
  \A n \in DOMAIN Spellings : network \notin Spellings[n]

\* C13 as stated: for a network name outside the supported set the registry
\* gives an empty stablecoin list and an empty known-token map, no address
\* is a stablecoin and no address has a mapped ID; getTokenPrices on such a
\* network makes at most the one on-chain request and no request by ID.
C13_UnsupportedNetworkIsEmpty ==
  /\ ( IsLookup(last) /\ Unsupported(last.network) )
       => ( /\ last.stablecoins = << >>
            /\ last.known = {}
            /\ ~last.isStablecoin
            /\ last.id = undefined )
  /\ ( IsPricesCall(last) /\ Unsupported(last.network) )
       => ( /\ Len(last.calls) <= 1
            /\ \A i \in DOMAIN last.calls : last.calls[i].api = "onchain_multi" )

\* what does hold: C13 for the addresses that are not the name of a member
\* every object inherits
UnsupportedNetworkIsEmptyForOwnNames ==
  /\ ( IsLookup(last) /\ Unsupported(last.network) )
       => ( /\ last.stablecoins = << >>
            /\ last.known = {}
            /\ ~last.isStablecoin
            /\ last.address \notin InheritedNames => last.id = undefined )
  /\ ( IsPricesCall(last) /\ Unsupported(last.network) )
       => ( /\ Len(last.calls) <= 1
            /\ \A i \in DOMAIN last.calls : last.calls[i].api = "onchain_multi" )

\* addresses that differ from a registered address in letter case alone
CaseChangedAddresses ==
  {"epjfwdd5aufqssqem2qn1xzybapc8g4weggkzwytdt1v",
   "so11111111111111111111111111111111111111112",
   "0xa0b86a33e6441b8c4505b8c4505b8c4505b8c4505",
   "0x833589fcd6edb6e08f4c7c32d4f71b54bda02913"}

\* C14: under every spelling of a supported network's name the stablecoin
\* list, the known-token map, isStablecoin, the mapped ID and
\* isNetworkSupported are what they are under the lower-case name; an
\* address that differs from a registered address in letter case alone is no
\* stablecoin and has no mapped ID, on any network.
C14_OnlyNetworkCaseIsNormalised ==
  IsLookup(last)
  => ( /\ \A n \in DOMAIN Spellings :
            last.network \in Spellings[n]
            => ( /\ last.stablecoins = getStablecoinAddresses(n)
                 /\ last.stablecoins = networks[n].stablecoins
                 /\ last.known = DOMAIN networks[n].knownTokens
                 /\ last.isStablecoin = isStablecoin(last.address, n)
                 /\ last.id = getCoinGeckoId(last.address, n)
                 /\ last.supported /\ isNetworkSupported(n) )
       /\ last.address \in CaseChangedAddresses
            => ( ~last.isStablecoin /\ last.id = undefined ) )

\* a lookup under ETHEREUM for the USDC address of ethereum in lower-case
\* letters: the stablecoins are those of ethereum, and the address is none
\* of them and has no ID
C14_Witness ==
  /\ IsLookup(last) /\ last.network = "ETHEREUM"
  /\ last.address = "0xa0b86a33e6441b8c4505b8c4505b8c4505b8c4505"
  /\ Len(last.stablecoins) = 2
  /\ last.stablecoins[1] = "0xA0b86a33E6441b8C4505B8C4505B8C4505B8C4505"
  /\ last.supported /\ ~last.isStablecoin /\ last.id = undefined

\* the networks whose known-token map holds the address
NetworksKnowing(address) ==
  {n \in DOMAIN networks : address \in DOMAIN networks[n].knownTokens}

\* C15: every address is in the known-token map of at most one network, and
\* every lookup that finds an ID finds the one ID that network's map gives
\* the address; the supported networks stay the four of the table.
C15_OneNetworkOneId ==
  /\ \A n \in DOMAIN networks :
       \A a \in DOMAIN networks[n].knownTokens : NetworksKnowing(a) = {n}
  /\ IsLookup(last)
       => ( /\ Cardinality(NetworksKnowing(last.address)) <= 1
            /\ last.id \notin {undefined, inherited}
                 => ( /\ NetworksKnowing(last.address) = {toLowerCase(last.network)}
                      /\ last.id = networks[toLowerCase(last.network)]
                                      .knownTokens[last.address] )
            /\ last.all = << "solana", "ethereum", "polygon", "base" >>
            /\ DOMAIN networks = {"solana", "ethereum", "polygon", "base"} )

\* a lookup on Base for wrapped ether: its ID is ethereum, an ID that the
\* map of ethereum gives to another address
C15_Witness ==
  /\ IsLookup(last) /\ last.network = "Base"
  /\ last.address = "0x4200000000000000000000000000000000000006"
  /\ last.id = "ethereum"
  /\ NetworksKnowing(last.address) = {"base"}
  /\ NetworksKnowing("0xC02aaA39b223FE8D0A0e5C4F27eAD9083C756Cc2") = {"ethereum"}

(***************************************************************************)
(* Properties of getTokenPricesBatch                                       *)
(***************************************************************************)
IsBatchCall(r) == r.op = "getTokenPricesBatch"

\* ceil(m / n)
CeilDiv(m, n) == (m + n - 1) \div n

\* the k-th chunk of n addresses of a list: indices [(k-1)n, kn) counted from 0
Chunk(list, n, k) ==
  SubSeq(list, (k - 1) * n + 1, IF k * n < Len(list) THEN k * n ELSE Len(list))

\* the calls that returned a price for the address
TurnsPricing(turns, a) == {k \in DOMAIN turns : a \in DOMAIN turns[k].result}

\* the chunk maps put together, a later chunk's price for an address taking
\* the place of an earlier one
UnionOfChunkMaps(turns) ==
  [a \in UNION {DOMAIN turns[k].result : k \in DOMAIN turns} |->
     turns[CHOOSE k \in TurnsPricing(turns, a) :
             \A j \in TurnsPricing(turns, a) : j <= k].result[a]]

\* C16: with batch size n >= 1 and m addresses, getTokenPricesBatch makes one
\* getTokenPrices call with the whole list when m <= n; when m > n it makes
\* ceil(m/n) calls, on the chunks [0,n), [n,2n), ... of the list in input
\* order, each starting after the one before it has returned, and returns
\* the chunk maps put together.
C16_BatchesAreTheChunksInOrder ==
  IsBatchCall(last)
  => LET m == Len(last.addrs)
         n == last.batchSize
     IN  /\ m <= n
              => ( /\ Len(last.turns) = 1
                   /\ last.turns[1].list = last.addrs
                   /\ last.result = last.turns[1].result )
         /\ m > n
              => ( /\ Len(last.turns) = CeilDiv(m, n)
                   /\ \A k \in DOMAIN last.turns :
                        /\ last.turns[k].list = Chunk(last.addrs, n, k)
                        /\ k > 1 => last.turns[k].at
                                      = last.turns[k - 1].at + BatchDelay
                   /\ last.turns[1].at = last.started
                   /\ last.result = UnionOfChunkMaps(last.turns) )

\* three addresses in batches of one on ethereum: three calls, one address
\* each, in input order, and the map holds what the second and third brought
C16_Witness ==
  /\ IsBatchCall(last) /\ last.batchSize = 1 /\ last.network = "ethereum"
  /\ last.addrs = << solMintAddress, USDC_ADDR,
                     "0xA0b86a33E6441b8C4505B8C4505B8C4505B8C4505" >>
  /\ Len(last.turns) = 3
  /\ last.turns[2].list = << USDC_ADDR >>
  /\ last.turns[3].at = last.started + 2 * BatchDelay
  /\ DOMAIN last.result
       = {USDC_ADDR, "0xA0b86a33E6441b8C4505B8C4505B8C4505B8C4505"}

\* the call for a chunk failed: it raised, or every upstream request it made
\* failed
ChunkFailed(turn) == turn.raised \/ AllFailed(turn.calls)

AllKinds == {"prices_", "solana_price", "token_data_"}

\* a call of one of the resolve methods
IsResolveCall(r) ==
  r.op \in {"getTokenPrices", "getTokenPrice", "getSolanaPrice",
            "getTokenData"}

\* the call found nothing in the cache and went on as the method does on a
\* miss: to the upstream for an address that is no stablecoin, to the
\* registry's metadata for a stablecoin
WentOnAsOnMiss(r) ==
  /\ ~r.hit
  /\ ~r.pre.found
  /\ r.op = "getSolanaPrice" => r.innerCalls # << >>
  /\ ( /\ r.op \in {"getTokenPrices", "getTokenPrice"}
       /\ r.addrs = << solMintAddress >> )
     => r.calls # << >>
  /\ DataMiss(r) => ( ~r.pricePre.found /\ r.calls # << >> )
  /\ ( /\ r.op = "getTokenData" /\ r.address # ""
       /\ isStablecoin(r.address, r.network) )
     => r.result = RecValue(StablecoinRecord(r.address, r.network))

\* the step is a clearCache call
ClearStep == nops' = nops + 1 /\ last'.op = "clearCache"

\* C18: clearCache removes every cache entry of every kind in one
\* synchronous step; until something is stored again, every resolve
\* operation behaves as on a cache miss.
C18_ClearCacheWipesEveryKind ==
  /\ [][ClearStep => ( requestCache' = << >> /\ now' = now )]_vars
  /\ [](last.op = "clearCache" => requestCache = << >>)
  /\ []( ( prev.op = "clearCache" /\ IsResolveCall(last) )
          => WentOnAsOnMiss(last) )

\* the cache held a prices entry, the SOL price entry and a token record;
\* it was cleared; the getTokenData call for the stablecoin whose record had
\* been stored missed and built the record again
C18_Witness ==
  /\ prev.op = "clearCache" /\ prev.cleared = AllKinds
  /\ last.op = "getTokenData" /\ last.address = USDC_ADDR
  /\ last.network = "solana"
  /\ ~last.hit /\ ~last.pre.found
  /\ DOMAIN requestCache = {last.key}

\* as above, with getSolanaPrice after the clear going to the upstream again
ClearedThenSolanaPrice ==
  /\ prev.op = "clearCache" /\ prev.cleared = AllKinds
  /\ last.op = "getSolanaPrice" /\ ~last.hit /\ last.innerCalls # << >>

(***************************************************************************)
(* getTokenPrices with an empty list or with blank addresses only          *)
(***************************************************************************)
\* every element of the list is the blank address (the empty list included)
OnlyBlank(tokenAddresses) ==
  \A i \in 1 .. Len(tokenAddresses) : tokenAddresses[i] = ""

\* a getTokenPrices call whose list holds no address
IsBlankCall(r) == r.op = "getTokenPrices" /\ OnlyBlank(r.addrs)

\* the step is a getTokenPrices call whose list holds no address
BlankStep == nops' = nops + 1 /\ IsBlankCall(last')

\* the cache holds an entry that has expired at time t
HoldsExpired(cache, t) ==
  \E k \in DOMAIN cache : t - cache[k].timestamp >= cacheTimeout

\* C19: getTokenPrices with an empty list returns the empty map without
\* evicting or writing any cache entry and without any upstream call; a list
\* made only of blank addresses also returns the empty map with no upstream
\* call and no cache write.
C19_NoAddressNoActivity ==
  /\ [][BlankStep => requestCache' = requestCache]_vars
  /\ [](IsBlankCall(last)
          => ( /\ last.result = EmptyMap
               /\ last.calls = << >>
               /\ ~last.raised
               /\ ~last.hit
               /\ ~last.pre.found ))

\* the cache holds an expired prices entry; getTokenPrices is called with
\* two blank addresses and returns {} leaving the entry where it is
C19_Witness ==
  /\ IsBlankCall(last) /\ last.addrs = << "", "" >>
  /\ HoldsExpired(requestCache, last.at)
  /\ last.result = EmptyMap /\ last.calls = << >>

\* as above, with the empty list
EmptyListOnExpiredCache ==
  /\ IsBlankCall(last) /\ last.addrs = << >>
  /\ HoldsExpired(requestCache, last.at)
  /\ last.result = EmptyMap /\ last.calls = << >>

(***************************************************************************)
(* The token-data routes                                                   *)
(***************************************************************************)
\* an answered request of one of the two token-data routes
IsDataRoute(r) == r.op \in {DataByAddress, DataByNetwork}

\* the body of a 200 answer: the fields of the record, and a timestamp
BodyOfRecord(body, rec) ==
  /\ DOMAIN body = DOMAIN rec \cup {"timestamp"}
  /\ \A f \in DOMAIN rec \ {"timestamp"} : body[f] = rec[f]

\* the call went to the upstream and every request it made there failed
UpstreamOutage(call) ==
  /\ call.calls # << >>
  /\ \A i \in DOMAIN call.calls : call.calls[i].failed

OutageAnsweredFromCachedPrice ==
  /\ IsDataRoute(last) /\ UpstreamOutage(last.call)
  /\ last.response.status = StatusOk

\* GET /data/:network/:address answered with 200 and an upstream record
RecordAnswered ==
  /\ last.op = DataByNetwork /\ last.call.calls # << >>
  /\ last.response.status = StatusOk
  /\ last.response.body.address = last.call.address

(***************************************************************************)
(* Overlapping getTokenPrices calls                                        *)
(***************************************************************************)
\* a and b are two getTokenPrices calls for the same list and network that
\* both missed the cache while the other was waiting; a returned first
Overlapped(a, b) ==
  /\ a.op = "getTokenPrices" /\ b.op = "getTokenPrices"
  /\ "peers" \in DOMAIN a /\ "peers" \in DOMAIN b
  /\ b.id \in a.peers
  /\ a.addrs = b.addrs /\ a.network = b.network

\* the entry a call writes when it returns
Written(r) == [data |-> MapValue(r.result), timestamp |-> r.at]

\* C21: when two overlapping getTokenPrices requests for the same key both
\* miss the cache, each issues its own upstream calls and each writes the
\* cache, the later write replacing the earlier; the two written values are
\* equivalent, so the cached map after both have completed is the same
\* whichever request finishes last, also when the upstream outcome differs
\* between the two requests.
C21_OverlappingWritesAreEquivalent ==
  Overlapped(prev, last)
  => ( /\ prev.calls # << >> /\ last.calls # << >>
       /\ last.result = prev.result
       /\ last.key \in DOMAIN requestCache
       /\ requestCache[last.key].data = MapValue(last.result)
       /\ requestCache[last.key].data = MapValue(prev.result) )

\* what holds of two overlapping requests: each makes its own upstream
\* calls; the entry left is the one the later request wrote, or, when the
\* later request priced nothing, the one the earlier request wrote; the two
\* maps are equal when the upstream answered both alike
OverlappingLastWriteWins ==
  Overlapped(prev, last)
  => ( /\ prev.calls # << >> /\ last.calls # << >>
       /\ DOMAIN last.result # {} => requestCache[last.key] = Written(last)
       /\ ( DOMAIN last.result = {} /\ DOMAIN prev.result # {} )
            => requestCache[last.key] = Written(prev)
       /\ ( prev.carried = last.carried /\ prev.calls = last.calls
            /\ Len(last.calls) = 1 )
            => last.result = prev.result )

\* [USDC, SOL] on solana, twice, overlapping: the first request got the SOL
\* price, the second did not and returned last; the entry holds the
\* stablecoin alone
PartialMapReplacedFullMap ==
  /\ Overlapped(prev, last)
  /\ last.addrs = << USDC_ADDR, solMintAddress >>
  /\ solMintAddress \in DOMAIN prev.result
  /\ solMintAddress \notin DOMAIN last.result
  /\ requestCache[last.key].data = MapValue(last.result)

(***************************************************************************)
(* The order of the upstream requests of one getTokenPrices call           *)
(***************************************************************************)
\* a getTokenPrices call that missed the cache
PricesMiss(r) == r.op = "getTokenPrices" /\ ~r.hit /\ r.addrs # << >>

\* the addresses of the call that are no stablecoins, in the order the
\* method goes through them
NonStableSeq(r) ==
  NonStablecoinAddresses(ValidAddresses(r.list), r.network)

\* the on-chain answer carried no price for the address
NotCarried(r, a) == a \notin DOMAIN r.carried

\* the on-chain answer carried no price for the address, or a price that
\* reads as zero or as no number
NotCarriedNonZero(r, a) ==
  NotCarried(r, a) \/ ~TruthyNumber(parseFloat(r.carried[a]))

\* the addresses among seq that have a mapped ID
MappedAmong(seq, network) ==
  SelectSeq(seq, LAMBDA a : getCoinGeckoId(a, network) # undefined)

\* the calls of r are: the on-chain request, when an address is no
\* stablecoin, then one /simple/price request for each address of lookups,
\* in order
CallsAre(r, lookups) ==
  LET first == IF NonStableSeq(r) = << >> THEN 0 ELSE 1
  IN  /\ Len(r.calls) = first + Len(lookups)
      /\ first = 1
           => ( /\ r.calls[1].api = "onchain_multi"
                /\ r.calls[1].addresses = NonStableSeq(r) )
      /\ \A i \in 1 .. Len(lookups) :
           /\ r.calls[first + i].api = "simple_price"
           /\ r.calls[first + i].id = getCoinGeckoId(lookups[i], r.network)

\* C22: within one getTokenPrices call that misses the cache the upstream
\* calls are ordered: at most one bulk on-chain call, made first; then the
\* ID-mapped lookups one at a time, each issued only for an address that the
\* bulk call left unpriced and that has a registry-mapped ID; an address
\* with no mapped ID triggers no further call and is absent from the result.
C22_OneBulkCallThenMappedLookups ==
  PricesMiss(last)
  => LET unpriced == SelectSeq(NonStableSeq(last),
                               LAMBDA a : NotCarried(last, a))
     IN  /\ CallsAre(last, MappedAmong(unpriced, last.network))
         /\ \A a \in Elems(unpriced) :
              getCoinGeckoId(a, last.network) = undefined
                => a \notin DOMAIN last.result

\* what holds: the same order, with a lookup for every mapped address that
\* has no non-zero price after the bulk call, an on-chain price of zero
\* included; an address with no mapped ID and no non-zero on-chain price has
\* no non-zero price in the result
OneBulkCallThenLookupsForNonZero ==
  PricesMiss(last)
  => LET unpriced == SelectSeq(NonStableSeq(last),
                               LAMBDA a : NotCarriedNonZero(last, a))
     IN  /\ CallsAre(last, MappedAmong(unpriced, last.network))
         /\ \A a \in Elems(unpriced) :
              getCoinGeckoId(a, last.network) = undefined
                => ~TruthyPrice(last.result, a)

\* [SOL, RAY] on solana: the on-chain answer priced neither, and the two
\* lookups by ID followed it in the order of the list
TwoLookupsInOrder ==
  /\ PricesMiss(last) /\ Len(last.calls) = 3
  /\ last.calls[1].api = "onchain_multi"
  /\ last.calls[2].api = "simple_price" /\ last.calls[3].api = "simple_price"
  /\ last.calls[2].id # last.calls[3].id
  /\ DOMAIN last.carried = {}

\* the on-chain answer carried the price 0 for wrapped SOL of solana, and the
\* lookup by ID was made for it
LookupAfterZeroPrice ==
  /\ PricesMiss(last) /\ last.network = "solana"
  /\ solMintAddress \in DOMAIN last.carried
  /\ Len(last.calls) >= 2 /\ last.calls[2].api = "simple_price"

(***************************************************************************)
(* The pauses of getTokenPricesBatch                                       *)
(***************************************************************************)
\* the call split its list into chunks
SplitCall(r) == IsBatchCall(r) /\ Len(r.addrs) > r.batchSize

\* C23: when getTokenPricesBatch splits its input into k > 1 chunks, the
\* pacing delay is inserted between consecutive chunks only: one delay
\* follows each chunk that has a successor (k-1 delays in all), the result is
\* returned right after the last chunk resolves, and with a single chunk or
\* direct delegation there is no delay.
C23_DelaysOnlyBetweenChunks ==
  IsBatchCall(last)
  => ( /\ SplitCall(last)
            => ( /\ \A k \in 2 .. Len(last.turns) :
                      last.turns[k].at = last.turns[k - 1].at + BatchDelay
                 /\ last.at = last.turns[Len(last.turns)].at
                 /\ last.at
                      = last.started + (Len(last.turns) - 1) * BatchDelay )
       /\ ~SplitCall(last) => last.at = last.started )

\* what holds: a delay follows every chunk, the last one included (k delays
\* in all), so the result is returned one delay after the last chunk has
\* resolved; with direct delegation there is no delay
DelayAfterEveryChunk ==
  IsBatchCall(last)
  => ( /\ SplitCall(last)
            => ( /\ Len(last.turns) > 1
                 /\ \A k \in 2 .. Len(last.turns) :
                      last.turns[k].at = last.turns[k - 1].at + BatchDelay
                 /\ last.at = last.turns[Len(last.turns)].at + BatchDelay
                 /\ last.at = last.started + Len(last.turns) * BatchDelay )
       /\ ~SplitCall(last)
            => ( Len(last.turns) = 1 /\ last.at = last.started ) )

\* [SOL, SOL] on ethereum in batches of one: two chunks, and the call returns
\* two delays after it started
TwoChunksTwoDelays ==
  /\ SplitCall(last) /\ Len(last.turns) = 2
  /\ last.at = last.started + 2 * BatchDelay

(***************************************************************************)
(* The cache contract                                                      *)
(***************************************************************************)
\* the entry of the key was live in the cache when the operation ran
WasLive(r) ==
  /\ r.key \in DOMAIN r.before
  /\ r.at - r.before[r.key].timestamp < cacheTimeout

\* the cache holds what it held before under every key but the one of r
OthersUntouched(r) ==
  /\ DOMAIN requestCache \ {r.key} = DOMAIN r.before \ {r.key}
  /\ \A k \in DOMAIN r.before \ {r.key} : requestCache[k] = r.before[k]

\* C24: getCachedData returns the stored value exactly when an entry exists
\* for the key and fewer than 60 000 ms have passed since it was stored; a
\* lookup that finds an entry aged 60 000 ms or more deletes it and returns
\* null; a lookup never changes a live entry's timestamp nor any other key's
\* entry; setCachedData replaces the entry of its key with the new value and
\* the current time.
C24_CacheContract ==
  /\ cacheTimeout = 60000
  /\ last.op = "getCachedData"
       => ( /\ OthersUntouched(last)
            /\ WasLive(last)
                 => ( /\ last.result = last.before[last.key].data
                      /\ requestCache = last.before )
            /\ ~WasLive(last)
                 => ( /\ last.result = null
                      /\ last.key \notin DOMAIN requestCache ) )
  /\ last.op = "setCachedData"
       => ( /\ OthersUntouched(last)
            /\ last.key \in DOMAIN requestCache
            /\ requestCache[last.key]
                 = [data |-> last.data, timestamp |-> last.at] )

\* an entry stored 59 999 ms ago is looked up: its value is returned and its
\* timestamp is the one it was stored with
C24_Witness ==
  /\ last.op = "getCachedData" /\ prev.op = "setCachedData"
  /\ last.key = prev.key
  /\ last.at = prev.at + cacheTimeout - 1
  /\ last.result = prev.data
  /\ requestCache[last.key].timestamp = prev.at

\* an entry stored 60 000 ms ago is looked up: null, and the entry is gone
ExpiredEntryDeleted ==
  /\ last.op = "getCachedData" /\ prev.op = "setCachedData"
  /\ last.key = prev.key
  /\ last.at = prev.at + cacheTimeout
  /\ last.result = null /\ requestCache = << >>

(***************************************************************************)
(* The upstream requests of one getTokenData call                          *)
(***************************************************************************)
\* the four upstream requests of getTokenData, in the order of the code: the
\* on-chain token request, the coins request, and the two requests of the
\* price-only lookup
TierOrder == << "onchain_token", "coins", "onchain_multi", "simple_price" >>

\* the place of a request in that order
TierOf(call) == CHOOSE i \in DOMAIN TierOrder : TierOrder[i] = call.api

\* the names of the requests of a call
ApisOf(r) == {r.calls[i].api : i \in DOMAIN r.calls}

StoppedAtCoins ==
  /\ DataMiss(last) /\ last.coins.kind = "ok"
  /\ [i \in DOMAIN last.calls |-> last.calls[i].api]
       = << "onchain_token", "coins" >>

(***************************************************************************)
(* A partial map is cached                                                 *)
(***************************************************************************)
\* a getTokenPrices call that missed the cache, priced at least one address
\* and left at least one without a price after an upstream request failed
PartialMiss(r) ==
  /\ IsPricesCall(r) /\ ~r.hit
  /\ r.result # EmptyMap
  /\ \E a \in Elems(r.addrs) : a # "" /\ a \notin DOMAIN r.result
  /\ \E i \in DOMAIN r.calls : r.calls[i].failed

\* C26: if a getTokenPrices call that missed the cache resolved at least one
\* address (for example only the stablecoins) while an upstream tier failed
\* for the others, that partial map is cached, and every identical request
\* within the next 60 s returns the partial map without retrying the failed
\* upstream lookups.
C26_PartialMapIsCached ==
  /\ PartialMiss(last)
       => ( /\ last.key \in DOMAIN requestCache
            /\ requestCache[last.key]
                 = [data |-> MapValue(last.result), timestamp |-> last.at] )
  /\ ( /\ PartialMiss(prev) /\ IsPricesCall(last)
       /\ last.addrs = prev.addrs /\ last.network = prev.network
       /\ last.at - prev.at < cacheTimeout )
       => ( /\ last.hit /\ last.calls = << >>
            /\ last.result = prev.result
            /\ requestCache[last.key].timestamp = prev.at )

\* [USDC, SOL] on solana with both requests for SOL failing: the map holds
\* the stablecoin alone; the same request 59 999 ms later is served that map
\* from the cache
C26_Witness ==
  /\ PartialMiss(prev) /\ AllFailed(prev.calls) /\ Len(prev.calls) = 2
  /\ DOMAIN prev.result = {USDC_ADDR}
  /\ IsPricesCall(last) /\ last.addrs = prev.addrs
  /\ last.network = prev.network
  /\ last.at - prev.at = cacheTimeout - 1
  /\ last.hit /\ last.calls = << >> /\ last.result = prev.result

(***************************************************************************)
(* Duplicates in the list of getTokenPrices                                *)
(***************************************************************************)
\* how often the address occurs in the list
Occurrences(list, a) == Cardinality({i \in DOMAIN list : list[i] = a})

\* how many /simple/price requests the call made for the ID
LookupsFor(r, id) ==
  Cardinality({i \in DOMAIN r.calls :
                 r.calls[i].api = "simple_price" /\ r.calls[i].id = id})

\* C27: duplicates are not removed before the tiers run: if an address with
\* a mapped ID occurs d times in the list and the bulk on-chain call leaves
\* it unpriced, the ID-mapped tier issues d lookups for it, one per
\* occurrence, even when the first of them already returned a price.
C27_OneLookupPerOccurrence ==
  PricesMiss(last)
  => \A a \in NonStableOf(last) :
       ( /\ getCoinGeckoId(a, last.network) # undefined
         /\ NotCarried(last, a) )
       => LookupsFor(last, getCoinGeckoId(a, last.network))
            = Occurrences(last.addrs, a)

\* [SOL, SOL] on solana: the on-chain answer priced nothing, the first
\* lookup by ID returned a price and the second lookup was made all the same
C27_Witness ==
  /\ PricesMiss(last)
  /\ last.addrs = << solMintAddress, solMintAddress >>
  /\ last.network = "solana"
  /\ DOMAIN last.carried = {}
  /\ Len(last.calls) = 3
  /\ last.calls[2].api = "simple_price" /\ ~last.calls[2].failed
  /\ last.calls[3].api = "simple_price" /\ last.calls[3].id = last.calls[2].id
  /\ solMintAddress \in DOMAIN last.result

(***************************************************************************)
(* Termination of getTokenPricesBatch                                      *)
(***************************************************************************)
\* a getTokenPricesBatch call in progress
IsRunningBatch(r) == "op" \in DOMAIN r /\ r.op = "getTokenPricesBatch"

\* the call has a batch size below one and a list with an address in it
Unending(r) == r.batchSize <= 0 /\ r.addrs # << >>

\* C28: getTokenPricesBatch terminates for every batchSize >= 1, each call
\* of getTokenPrices terminating; with batchSize <= 0 and a non-empty list
\* the loop that builds the batches never ends, so no getTokenPrices call is
\* made and the call never returns.
C28_BatchTerminatesForPositiveSizes ==
  /\ (\E r \in inflight : IsRunningBatch(r) /\ r.batchSize >= 1)
       ~> (inflight = {})
  /\ [](\A r \in inflight :
          ( IsRunningBatch(r) /\ Unending(r) )
            => ( /\ r.pc = "build"
                 /\ r.i < Len(r.addrs)
                 /\ r.st.turns = << >>
                 /\ Len(r.batches) * r.batchSize = r.i ))
  /\ []( IsBatchCall(last) => ~Unending(last) )

\* [SOL] with batch size 0: the building loop has made more batches than the
\* list has addresses and its condition still holds
C28_Witness ==
  \E r \in inflight :
    /\ IsRunningBatch(r) /\ r.batchSize = 0
    /\ r.addrs = << solMintAddress >>
    /\ Len(r.batches) > Len(r.addrs)
    /\ r.pc = "build" /\ r.i < Len(r.addrs)

\* three addresses in batches of one: the call has returned after three
\* getTokenPrices calls
SteppedBatchReturned ==
  /\ IsBatchCall(last) /\ last.batchSize = 1 /\ Len(last.turns) = 3
  /\ inflight = {}

\* the empty list with batch size -1: no batch is built, and the call
\* returns {} without a getTokenPrices call
EmptyListNegativeSize ==
  /\ IsBatchCall(last) /\ last.batchSize < 0 /\ last.addrs = << >>
  /\ last.turns = << >> /\ last.result = EmptyMap


(***************************************************************************)
(* The caller's list                                                       *)
(***************************************************************************)
\* the list is in the order Array.prototype.sort() gives
InSortOrder(list) ==
  \A i \in DOMAIN list : \A j \in DOMAIN list :
    i < j => Rank(list[i]) <= Rank(list[j])

\* the two lists hold the same addresses, each as many times
SameMultiset(a, b) ==
  /\ Len(a) = Len(b)
  /\ \A x \in Elems(a) \cup Elems(b) : Occurrences(a, x) = Occurrences(b, x)

\* a getTokenPricesBatch call that made its own batches
SplitBatch(c) == IsBatchCall(c) /\ Len(c.addrs) > c.batchSize

\* C29: getTokenPrices sorts the caller's list itself, not a copy: after a
\* call with a non-empty list, answered from the cache or not, the caller's
\* list holds the same addresses, each as many times, in sorted order; a call
\* with an empty list leaves it as it was, and getTokenPricesBatch leaves the
\* caller's list in its order whenever it splits it into batches.
C29_CallersListIsSortedInPlace ==
  /\ (last.op = "getTokenPrices" /\ last.addrs # << >>)
       => (InSortOrder(last.list) /\ SameMultiset(last.list, last.addrs))
  /\ (last.op = "getTokenPrices" /\ last.addrs = << >>)
       => last.list = << >>
  /\ SplitBatch(last) => last.list = last.addrs

\* [SOL, USDC], given out of order, was answered from the cache and the
\* caller's list was put in order all the same
C29_Witness ==
  /\ last.op = "getTokenPrices" /\ last.hit
  /\ last.addrs = << solMintAddress, USDC_ADDR >>
  /\ last.list = << USDC_ADDR, solMintAddress >>

\* [SOL, USDC] was not in the cache and came back in order
SortedOnMiss ==
  /\ last.op = "getTokenPrices" /\ ~last.hit
  /\ last.addrs = << solMintAddress, USDC_ADDR >>
  /\ last.list = << USDC_ADDR, solMintAddress >>

\* [SOL, USDC] in batches of one: the caller's list kept its order
SplitKeptOrder ==
  /\ SplitBatch(last) /\ last.batchSize = 1
  /\ last.addrs = << solMintAddress, USDC_ADDR >>
  /\ last.list = last.addrs
  /\ Len(last.turns) = 2

\* [SOL, USDC] passed whole by getTokenPricesBatch came back in order
DelegatedListSorted ==
  /\ IsBatchCall(last) /\ ~SplitBatch(last)
  /\ last.addrs = << solMintAddress, USDC_ADDR >>
  /\ last.list = << USDC_ADDR, solMintAddress >>


(***************************************************************************)
(* The metadata of the stablecoins                                         *)
(***************************************************************************)
\* the addresses the registry lists as USDC, one per network
RegisteredUsdc ==
  {"EPjFWdd5AufqSSqeM2qN1xzybapC8G4wEGGkZwyTDt1v",
   "0xA0b86a33E6441b8C4505B8C4505B8C4505B8C4505",
   "0x2791Bca1f2de4661ED88A30C99A7a9449Aa84174",
   "0x833589fCD6eDb6E08f4c7C32D4f71b54bdA02913"}

\* the symbol of a stablecoin
SymbolOf(address) == IF address \in RegisteredUsdc THEN "USDC" ELSE "USDT"

\* every stablecoin address of the registry
AllStablecoins ==
  UNION {Elems(networks[n].stablecoins) : n \in DOMAIN networks}

\* the address has its metadata entry on the network
HasOwnMetadata(address, network) ==
  /\ Cardinality(MetadataFor(address, network)) = 1
  /\ \A m \in MetadataFor(address, network) :
       /\ m.address = address
       /\ m.symbol = SymbolOf(address)
       /\ m.decimals = 6

\* a getTokenData call for a stablecoin of its network
StablecoinCall(c) == IsDataCall(c) /\ isStablecoin(c.address, c.network)

\* C30: on every supported network every address for which isStablecoin is
\* true has a metadata entry with the same address, so getTokenData never
\* returns the generic STABLECOIN / Stablecoin triple: the symbol is USDC for
\* the four registered USDC addresses and USDT for every other stablecoin,
\* always with 6 decimals.
C30_StablecoinsHaveTheirMetadata ==
  /\ \A n \in RegistryNetworks \cup SupportedSpellings :
       \A a \in RegistryAddresses \cup AllStablecoins :
         isStablecoin(a, n) => HasOwnMetadata(a, n)
  /\ StablecoinCall(last)
       => ( /\ last.result.kind = "rec"
            /\ last.result.rec.symbol = SymbolOf(last.address)
            /\ last.result.rec.symbol # "STABLECOIN"
            /\ last.result.rec.name # "Stablecoin"
            /\ last.result.rec.decimals = 6 )

\* USDT of base, asked for under the name BASE: the record of Tether USD
C30_Witness ==
  /\ StablecoinCall(last) /\ ~last.hit
  /\ last.address = "0xfde4C96c8593536E31F229EA8f37b2ADa2699bb2"
  /\ last.network = "BASE"
  /\ last.result.kind = "rec"
  /\ last.result.rec.symbol = "USDT" /\ last.result.rec.name = "Tether USD"

\* USDC of polygon, answered from the cache with its own symbol
UsdcOfPolygonFromCache ==
  /\ StablecoinCall(last) /\ last.hit
  /\ last.address = "0x2791Bca1f2de4661ED88A30C99A7a9449Aa84174"
  /\ last.network = "polygon"
  /\ last.result.rec.symbol = "USDC"

====
